---- MODULE Spec2Model ----
(***************************************************************************)
(* GroundHog: the tool-calling agent.                                      *)
(*                                                                         *)
(* The planner (OpenAIParametriesedFunctionsAgent: Plan, ParseOutput,      *)
(* constructScratchPad, normalizeToolInput) is translated from the agent   *)
(* package.  The execution loop that drives it is the agents.Executor      *)
(* built by NewAgent; its source is not part of the repository, so the     *)
(* loop is written from section 4.5 of the specification.                  *)
(*                                                                         *)
(* Four specifications share the variables: Spec (one turn of the loop),   *)
(* PadSpec (the scratchpad builder on any step sequence), NormSpec (the    *)
(* argument normalizer on any Arguments text) and WsSpec (the websocket    *)
(* server: two connections on the one executor).                           *)
(*                                                                         *)
(* A Go string is a sequence of tokens (TLA+ strings used as atoms): the   *)
(* empty string is << >>, concatenation is \o.  A JSON text is tokenised   *)
(* into punctuation, blanks, string literals and scalar literals.          *)
(***************************************************************************)
EXTENDS Integers, Sequences, FiniteSets, TLC

\* ------------------------------------------------------------------ bounds
\* Largest iteration cap a turn is started with.
MaxCap == 3

\* Most messages the connections send, taken together.
MaxMessages == 2

\* The iteration cap of the server's executor, scaled down.
MaxWsIterations == 1

\* Most members of a JSON object handed to the argument normalizer.
MaxMembers == 2

\* Longest step sequence handed to the scratchpad builder on its own.
MaxPadLen == 4

\* The most tools an agent is built with when one planning call is explored.
MaxTools == 2

\* The most steps the scratchpad of an explored prompt is built from.
MaxPromptSteps == 2

\* The most values a login form carries for its password field.
MaxFieldValues == 2

\* The most entries of an explored notes directory.
MaxEntries == 3

\* The most notes asked for.
MaxAmount == 2

\* ----------------------------------------------------------------- strings
\* The contents a JSON string literal can have in the payloads explored.
StrContents == {"__arg1", "a", "b", "2+2"}

\* The JSON string literal with content c.
Lit(c) == "\"" \o c \o "\""

StrLits == {Lit(c) : c \in StrContents}

\* Scalar literals that are not strings.
NumLits == {"1"}

\* strings.TrimSpace
RECURSIVE TrimLeft(_)
TrimLeft(s) == IF s # << >> /\ Head(s) = " " THEN TrimLeft(Tail(s)) ELSE s

RECURSIVE TrimRight(_)
TrimRight(s) ==
  IF s # << >> /\ s[Len(s)] = " " THEN TrimRight(SubSeq(s, 1, Len(s) - 1)) ELSE s

TrimSpace(s) == TrimRight(TrimLeft(s))

\* ------------------------------------------------------------ encoding/json
\* The tokens of a JSON text that carry meaning: blanks between tokens are
\* insignificant to the decoder.
Significant(s) == SelectSeq(s, LAMBDA t : t # " ")

\* The members of an object text between its braces.
Members(s) == LET t == Significant(s) IN SubSeq(t, 2, Len(t) - 1)

\* json.Unmarshal into map[string]any succeeds on the literal null and on an
\* object: "{" [ key ":" value { "," key ":" value } ] "}".
UnmarshalOK(s) ==
  LET t == Significant(s)
      m == Members(s)
  IN  \/ t = <<"null">>
      \/ /\ Len(t) >= 2
         /\ t[1] = "{"
         /\ t[Len(t)] = "}"
         /\ \/ m = << >>
            \/ /\ Len(m) % 4 = 3
               /\ \A i \in 1..Len(m) :
                    CASE i % 4 = 1 -> m[i] \in StrLits
                      [] i % 4 = 2 -> m[i] = ":"
                      [] i % 4 = 3 -> m[i] \in StrLits \cup NumLits
                      [] OTHER     -> m[i] = ","

\* The decoded map: nil for null; otherwise key literal -> value literal, a
\* repeated key keeping its last value.
Unmarshal(s) ==
  LET t == Significant(s)
      m == Members(s)
      keyAt == {i \in 1..Len(m) : i % 4 = 1}
      keys == {m[i] : i \in keyAt}
      last(k) == CHOOSE i \in keyAt : m[i] = k /\ \A j \in keyAt : m[j] = k => j <= i
  IN  IF t = <<"null">>
      THEN [nil |-> TRUE, kv |-> << >>]
      ELSE [nil |-> FALSE, kv |-> [k \in keys |-> m[last(k) + 2]]]

\* The order json.Marshal writes map keys in: sorted by bytes.
KeyOrder == <<Lit("2+2"), Lit("__arg1"), Lit("a"), Lit("b")>>

RECURSIVE MarshalMembers(_, _)
MarshalMembers(kv, ks) ==
  IF ks = << >> THEN << >>
  ELSE <<Head(ks), ":", kv[Head(ks)]>>
         \o (IF Tail(ks) = << >> THEN << >> ELSE <<",">>)
         \o MarshalMembers(kv, Tail(ks))

\* A Marshal that loses the first key it would write.
Marshal_DropsFirstKey(mp) ==
  IF mp.nil THEN <<"null">>
  ELSE LET ks == SelectSeq(KeyOrder, LAMBDA k : k \in DOMAIN mp.kv) IN
       <<"{">> \o MarshalMembers(mp.kv, IF ks = << >> THEN ks ELSE Tail(ks)) \o <<"}">>

\* json.Marshal of a map[string]any.
Marshal(mp) ==
  IF mp.nil THEN <<"null">>
  ELSE <<"{">>
         \o MarshalMembers(mp.kv, SelectSeq(KeyOrder, LAMBDA k : k \in DOMAIN mp.kv))
         \o <<"}">>

\* The Go string a JSON string literal decodes to.
Unquote(t) == <<CHOOSE c \in StrContents : Lit(c) = t>>

\* A normalizer that returns a decoded object's text as it was written.
normalizeToolInput_AsWritten(argStr) ==
  LET trimmed == TrimSpace(argStr) IN
  IF trimmed = << >> THEN << >>
  ELSE IF ~UnmarshalOK(trimmed) THEN trimmed
  ELSE LET toolInputMap == Unmarshal(trimmed) IN
       IF /\ ~toolInputMap.nil
          /\ Lit("__arg1") \in DOMAIN toolInputMap.kv
          /\ toolInputMap.kv[Lit("__arg1")] \in StrLits
       THEN Unquote(toolInputMap.kv[Lit("__arg1")])
       ELSE trimmed

\* A normalizer that passes text it cannot decode through untrimmed.
normalizeToolInput_Untrimmed(argStr) ==
  LET trimmed == TrimSpace(argStr) IN
  IF trimmed = << >> THEN << >>
  ELSE IF ~UnmarshalOK(trimmed) THEN argStr
  ELSE LET toolInputMap == Unmarshal(trimmed) IN
       IF /\ ~toolInputMap.nil
          /\ Lit("__arg1") \in DOMAIN toolInputMap.kv
          /\ toolInputMap.kv[Lit("__arg1")] \in StrLits
       THEN Unquote(toolInputMap.kv[Lit("__arg1")])
       ELSE Marshal(toolInputMap)

normalizeToolInput(argStr) ==
  LET trimmed == TrimSpace(argStr) IN
  IF trimmed = << >> THEN << >>
  ELSE IF ~UnmarshalOK(trimmed) THEN trimmed
  ELSE LET toolInputMap == Unmarshal(trimmed) IN
       IF /\ ~toolInputMap.nil
          /\ Lit("__arg1") \in DOMAIN toolInputMap.kv
          /\ toolInputMap.kv[Lit("__arg1")] \in StrLits
       THEN Unquote(toolInputMap.kv[Lit("__arg1")])
       ELSE Marshal(toolInputMap)

\* ------------------------------------------------------------- the planner
\* A nil pointer is the empty sequence, a non-nil one a sequence of length 1.
Nil == << >>

Ptr(x) == <<x>>

Deref(p) == p[1]

\* schema.AgentAction
AgentAction(tool, toolInput, log, toolID) ==
  [Tool |-> tool, ToolInput |-> toolInput, Log |-> log, ToolID |-> toolID]

\* fmt.Sprintf(" responded: %s", choice.Content), or "" for an empty content
ContentMsg(choice) ==
  IF choice.Content # << >> THEN <<" responded: ">> \o choice.Content ELSE << >>

\* fmt.Sprintf("Invoking: %s with %s%s", functionName, normalized, contentMsg)
InvokingLog(functionName, normalized, contentMsg) ==
  <<"Invoking: ">> \o functionName \o <<" with ">> \o normalized \o contentMsg

\* An action that loses the id of its tool call.
ToolCallAction_NoID(choice, toolCall) ==
  LET normalized == normalizeToolInput(toolCall.Arguments) IN
  AgentAction(toolCall.Name, normalized,
              InvokingLog(toolCall.Name, normalized, ContentMsg(choice)), << >>)

\* The action ParseOutput builds for one structured tool call.
ToolCallAction(choice, toolCall) ==
  LET normalized == normalizeToolInput(toolCall.Arguments) IN
  AgentAction(toolCall.Name, normalized,
              InvokingLog(toolCall.Name, normalized, ContentMsg(choice)),
              toolCall.ID)

\* The action ParseOutput builds for a legacy function call: no call id.
FuncCallAction(choice) ==
  LET functionCall == Deref(choice.FuncCall)
      normalized == normalizeToolInput(functionCall.Arguments)
  IN  AgentAction(functionCall.Name, normalized,
                  InvokingLog(functionCall.Name, normalized, ContentMsg(choice)),
                  << >>)

\* What Plan and ParseOutput return: (actions, finish, err), and whether the
\* call panicked instead of returning. err = "" is the nil error.
PlanResult(actions, finish, err, panicked) ==
  [actions |-> actions, finish |-> finish, err |-> err, panicked |-> panicked]

\* schema.AgentFinish with ReturnValues["output"] and Log set to the content.
\* AgentFinish that sets the log and leaves the output empty.
AgentFinish_NoOutput(content) == [output |-> << >>, Log |-> content]

AgentFinish(content) == [output |-> content, Log |-> content]

\* ParseOutput that looks at the legacy function call before the tool calls.
ParseOutput_LegacyFirst(contentResp) ==
  IF contentResp = Nil \/ Len(Deref(contentResp).Choices) = 0
  THEN PlanResult(<< >>, Nil, "no choices in response", FALSE)
  ELSE LET choice == Deref(contentResp).Choices[1] IN
       IF choice.FuncCall # Nil
       THEN PlanResult(<<FuncCallAction(choice)>>, Nil, "", FALSE)
       ELSE IF Len(choice.ToolCalls) > 0
       THEN PlanResult([i \in 1..Len(choice.ToolCalls) |->
                          ToolCallAction(choice, choice.ToolCalls[i])],
                       Nil, "", FALSE)
       ELSE PlanResult(<< >>, Ptr(AgentFinish(choice.Content)), "", FALSE)

\* ParseOutput without its legacy branch: a function call is taken for text.
ParseOutput_NoLegacy(contentResp) ==
  IF contentResp = Nil \/ Len(Deref(contentResp).Choices) = 0
  THEN PlanResult(<< >>, Nil, "no choices in response", FALSE)
  ELSE LET choice == Deref(contentResp).Choices[1] IN
       IF Len(choice.ToolCalls) > 0
       THEN PlanResult([i \in 1..Len(choice.ToolCalls) |->
                          ToolCallAction(choice, choice.ToolCalls[i])],
                       Nil, "", FALSE)
       ELSE PlanResult(<< >>, Ptr(AgentFinish(choice.Content)), "", FALSE)

\* ParseOutput whose tool-call branch does not return: the finish is built too.
ParseOutput_FallsThrough(contentResp) ==
  IF contentResp = Nil \/ Len(Deref(contentResp).Choices) = 0
  THEN PlanResult(<< >>, Nil, "no choices in response", FALSE)
  ELSE LET choice == Deref(contentResp).Choices[1] IN
       IF Len(choice.ToolCalls) > 0
       THEN PlanResult([i \in 1..Len(choice.ToolCalls) |->
                          ToolCallAction(choice, choice.ToolCalls[i])],
                       Ptr(AgentFinish(choice.Content)), "", FALSE)
       ELSE IF choice.FuncCall # Nil
       THEN PlanResult(<<FuncCallAction(choice)>>, Nil, "", FALSE)
       ELSE PlanResult(<< >>, Ptr(AgentFinish(choice.Content)), "", FALSE)

ParseOutput(contentResp) ==
  IF contentResp = Nil \/ Len(Deref(contentResp).Choices) = 0
  THEN PlanResult(<< >>, Nil, "no choices in response", FALSE)
  ELSE LET choice == Deref(contentResp).Choices[1] IN
       IF Len(choice.ToolCalls) > 0
       THEN PlanResult([i \in 1..Len(choice.ToolCalls) |->
                          ToolCallAction(choice, choice.ToolCalls[i])],
                       Nil, "", FALSE)
       ELSE IF choice.FuncCall # Nil
       THEN PlanResult(<<FuncCallAction(choice)>>, Nil, "", FALSE)
       ELSE PlanResult(<< >>, Ptr(AgentFinish(choice.Content)), "", FALSE)

\* llms.AIChatMessage carrying tool calls, and llms.ToolChatMessage.
AIChatMessage(content, toolCalls) ==
  [type |-> "ai", Content |-> content, ToolCalls |-> toolCalls, ID |-> << >>]

ToolChatMessage(id, content) ==
  [type |-> "tool", Content |-> content, ToolCalls |-> << >>, ID |-> id]

\* llms.ToolCall built from a step's action.
StepToolCall(step) ==
  [ID |-> step.Action.ToolID, Type |-> "function",
   Name |-> step.Action.Tool, Arguments |-> step.Action.ToolInput]

\* The tool messages for steps[from..to].
ToolMessages(steps, from, to) ==
  [k \in 1..(to - from + 1) |->
     ToolChatMessage(steps[from + k - 1].Action.ToolID,
                     steps[from + k - 1].Observation)]

\* The AI message of a batch followed by its tool messages; the batch is the
\* currentToolCalls collected before index i (exclusive).
\* FlushBatch whose result loop starts at the first step, not at the batch.
FlushBatch_FromStart(steps, i, currentToolCalls, currentLog) ==
  <<AIChatMessage(currentLog, currentToolCalls)>>
    \o ToolMessages(steps, 1, Len(currentToolCalls))

FlushBatch(steps, i, currentToolCalls, currentLog) ==
  <<AIChatMessage(currentLog, currentToolCalls)>>
    \o ToolMessages(steps, i - Len(currentToolCalls), i - 1)

\* The loop of a builder that starts a new batch at every step.
RECURSIVE ScratchPadLoop_NeverMerges(_, _, _, _, _)
ScratchPadLoop_NeverMerges(steps, i, messages, currentToolCalls, currentLog) ==
  IF i > Len(steps)
  THEN IF Len(currentToolCalls) > 0
       THEN messages \o FlushBatch(steps, Len(steps) + 1, currentToolCalls, currentLog)
       ELSE messages
  ELSE LET flush == Len(currentToolCalls) > 0
           msgs  == IF flush
                    THEN messages \o FlushBatch(steps, i, currentToolCalls, currentLog)
                    ELSE messages
       IN  ScratchPadLoop_NeverMerges(steps, i + 1, msgs,
                                      <<StepToolCall(steps[i])>>, steps[i].Action.Log)

\* The loop of constructScratchPad from index i on.
RECURSIVE ScratchPadLoop(_, _, _, _, _)
ScratchPadLoop(steps, i, messages, currentToolCalls, currentLog) ==
  IF i > Len(steps)
  THEN IF Len(currentToolCalls) > 0
       THEN messages \o FlushBatch(steps, Len(steps) + 1, currentToolCalls, currentLog)
       ELSE messages
  ELSE LET newBatch == i = 1 \/ steps[i].Action.Log # steps[i - 1].Action.Log
           flush    == newBatch /\ Len(currentToolCalls) > 0
           msgs     == IF flush
                       THEN messages \o FlushBatch(steps, i, currentToolCalls, currentLog)
                       ELSE messages
           calls    == IF flush THEN << >> ELSE currentToolCalls
           log      == IF newBatch THEN steps[i].Action.Log ELSE currentLog
       IN  ScratchPadLoop(steps, i + 1, msgs,
                          Append(calls, StepToolCall(steps[i])), log)

\* constructScratchPad without the flush after its loop: the batch still
\* open at the end is dropped.
constructScratchPad_NoFinalFlush(steps) ==
  IF Len(steps) = 0 THEN << >>
  ELSE LET all == ScratchPadLoop(steps, 1, << >>, << >>, << >>)
           ais == {k \in DOMAIN all : all[k].type = "ai"}
           lastAI == CHOOSE k \in ais : \A j \in ais : j <= k
       IN  SubSeq(all, 1, lastAI - 1)

constructScratchPad(steps) ==
  IF Len(steps) = 0 THEN << >>
  ELSE ScratchPadLoop(steps, 1, << >>, << >>, << >>)

\* A Plan that consumes the steps it is given.
StepsAfterPlan_Consumed(intermediateSteps) == << >>

\* What the caller's step slice holds when Plan returns: Plan hands it to
\* constructScratchPad, which only reads steps[i] and steps[j]; neither
\* assigns to an element or appends to the slice.
StepsAfterPlan(intermediateSteps) ==
  intermediateSteps

\* Plan: build the scratchpad, format the prompt, call the model once, parse.
\* formatOK is whether Prompt.FormatPrompt succeeded; gen is what
\* LLM.GenerateContent returned, (result, err).
\* Plan that does not look at the error GenerateContent returned.
Plan_DropsErr(intermediateSteps, formatOK, gen) ==
  IF ~formatOK THEN PlanResult(<< >>, Nil, "format prompt", FALSE)
  ELSE IF gen.result # Nil /\ Len(Deref(gen.result).Choices) = 0
  THEN PlanResult(<< >>, Nil, "", TRUE)
  ELSE ParseOutput(gen.result)

Plan(intermediateSteps, formatOK, gen) ==
  IF ~formatOK THEN PlanResult(<< >>, Nil, "format prompt", FALSE)
  \* result.Choices[0] is read before err and before the length is checked
  ELSE IF gen.result # Nil /\ Len(Deref(gen.result).Choices) = 0
  THEN PlanResult(<< >>, Nil, "", TRUE)
  ELSE IF gen.err # "" THEN PlanResult(<< >>, Nil, gen.err, FALSE)
  ELSE ParseOutput(gen.result)

\* ------------------------------------------- what Plan sends to the model
\* map[string]any{"properties": {"__arg1": {"title": "__arg1", "type":
\* "string"}}, "required": ["__arg1"], "type": "object"}
defaultFunctionParameters ==
  [properties |-> ("__arg1" :> [title |-> "__arg1", type |-> "string"]),
   required |-> <<"__arg1">>,
   type |-> "object"]

\* llms.FunctionDefinition
FunctionDefinition(name, description, parameters) ==
  [Name |-> name, Description |-> description, Parameters |-> parameters]

\* A tool of o.Tools: whether it implements parameterizedTool, and what its
\* Parameters() returns then (a nil map or a schema).
Tool(name, description, parameterized, custom) ==
  [Name |-> name, Description |-> description, parameterized |-> parameterized,
   custom |-> custom]

\* functions that gives every tool the default schema.
functions_AlwaysDefault(Tools) ==
  [i \in 1..Len(Tools) |->
     FunctionDefinition(Tools[i].Name, Tools[i].Description, defaultFunctionParameters)]

\* functions(): one definition per tool of o.Tools, in order.
functions(Tools) ==
  [i \in 1..Len(Tools) |->
     LET tool == Tools[i]
         params == IF tool.parameterized /\ tool.custom # Nil
                   THEN Deref(tool.custom)
                   ELSE defaultFunctionParameters
     IN  FunctionDefinition(tool.Name, tool.Description, params)]

\* The chat messages a formatted prompt holds besides those of the scratchpad.
SystemChatMessage(content) ==
  [type |-> "system", Content |-> content, ToolCalls |-> << >>, ID |-> << >>]

HumanChatMessage(content) ==
  [type |-> "human", Content |-> content, ToolCalls |-> << >>, ID |-> << >>]

FunctionChatMessage(name, content) ==
  [type |-> "function", Content |-> content, ToolCalls |-> << >>, ID |-> << >>,
   Name |-> name]

\* The parts of an llms.MessageContent.
TextContent(text) == [kind |-> "text", Text |-> text]

ToolCallResponse(toolCallID, name, content) ==
  [kind |-> "response", ToolCallID |-> toolCallID, Name |-> name, Content |-> content]

ToolCallPart(tc) ==
  [kind |-> "call", ID |-> tc.ID, Type |-> tc.Type, Name |-> tc.Name,
   Arguments |-> tc.Arguments]

\* A conversion that sends an AI message's text along with its tool calls.
MessageContent_KeepsText(msg) ==
  [Role |-> msg.type,
   Parts |-> CASE msg.type = "tool" ->
                    <<ToolCallResponse(msg.ID, << >>, msg.Content)>>
               [] msg.type = "function" ->
                    <<ToolCallResponse(<< >>, msg.Name, msg.Content)>>
               [] msg.type = "ai" /\ Len(msg.ToolCalls) > 0 ->
                    <<TextContent(msg.Content)>>
                      \o [k \in 1..Len(msg.ToolCalls) |-> ToolCallPart(msg.ToolCalls[k])]
               [] OTHER -> <<TextContent(msg.Content)>>]

\* The llms.MessageContent Plan makes of one message of the prompt: the
\* switch on the message's type.
MessageContent(msg) ==
  [Role |-> msg.type,
   Parts |-> CASE msg.type = "tool" ->
                    <<ToolCallResponse(msg.ID, << >>, msg.Content)>>
               [] msg.type = "function" ->
                    <<ToolCallResponse(<< >>, msg.Name, msg.Content)>>
               [] msg.type = "ai" /\ Len(msg.ToolCalls) > 0 ->
                    [k \in 1..Len(msg.ToolCalls) |-> ToolCallPart(msg.ToolCalls[k])]
               [] OTHER -> <<TextContent(msg.Content)>>]

\* mcList: one MessageContent per message of the prompt, at the same index.
McList(messages) == [i \in 1..Len(messages) |-> MessageContent(messages[i])]

\* ------------------------------------------------- the model and the tools
\* llms.ToolCall and llms.ContentChoice as the model returns them.
ToolCall(id, name, arguments) == [ID |-> id, Name |-> name, Arguments |-> arguments]

FunctionCall(name, arguments) == [Name |-> name, Arguments |-> arguments]

Choice(content, toolCalls, funcCall) ==
  [Content |-> content, ToolCalls |-> toolCalls, FuncCall |-> funcCall]

\* Argument payloads: the positional convention, free text, and an object
\* written with blanks and unsorted keys.
ArgPositional == <<"{", Lit("__arg1"), ":", Lit("2+2"), "}">>

ArgFreeText == <<" ", "2+2", " ">>

ArgObject == <<"{", " ", Lit("b"), ":", "1", ",", Lit("a"), ":", Lit("2+2"), "}">>

\* The responses the model is taken to give.
RespCalculator ==
  [Choices |-> <<Choice(<< >>, <<ToolCall(<<"c1">>, <<"calculator">>, ArgPositional)>>, Nil)>>]

RespWeather ==
  [Choices |-> <<Choice(<<"hm">>, <<ToolCall(<<"c2">>, <<"weather">>, ArgFreeText)>>, Nil)>>]

RespTwoCalls ==
  [Choices |-> <<Choice(<< >>, <<ToolCall(<<"c3">>, <<"calendar">>, ArgObject),
                                ToolCall(<<"c4">>, <<"calculator">>, ArgPositional)>>, Nil)>>]

RespLegacy ==
  [Choices |-> <<Choice(<< >>, << >>, Ptr(FunctionCall(<<"calculator">>, ArgFreeText)))>>]

RespText == [Choices |-> <<Choice(<<"4">>, << >>, Nil)>>]

RespEmptyText == [Choices |-> <<Choice(<< >>, << >>, Nil)>>]

RespNoChoices == [Choices |-> << >>]

Responses ==
  {RespCalculator, RespWeather, RespTwoCalls, RespLegacy, RespText, RespEmptyText,
   RespNoChoices}

\* The (result, err) variables of Plan while GenerateContent has not been
\* called.
NotCalled == [result |-> Nil, err |-> ""]

\* What LLM.GenerateContent can return: a response, an error, or neither.
GenerateResults ==
  {[result |-> Ptr(r), err |-> ""] : r \in Responses}
    \cup {[result |-> Nil, err |-> "llm unavailable"],
          [result |-> Ptr(RespText), err |-> "stream interrupted"],
          [result |-> Nil, err |-> ""]}

\* The registry: the names of the tools the agent was built with.
ToolNames == {<<"calculator">>, <<"calendar">>}

\* What Tool.Call can return: (string, nil) or ("", error with a message).
ToolReturns == {[out |-> <<"4">>, err |-> << >>], [out |-> << >>, err |-> <<"boom">>]}

\* ------------------------------------------------------- the execution loop
VARIABLES
  maxIterations,  \* the cap of the turn
  pc,             \* Planning, ToolDispatch, Finished, Failed, Panicked
  trace,          \* the []AgentStep accumulated in the turn
  pending,        \* the actions of the current batch not dispatched yet
  iterations,     \* the iteration count
  err,            \* the turn's error: its kind and message
  output,         \* the turn's output text
  scratchpad,     \* the agent_scratchpad input of the latest Plan call
  plans,          \* history: per planning call, what it was given and returned
  dispatches,     \* history: per dispatched action, how it went
  invocations     \* history: the Tool.Call invocations made, in order

\* The state of the websocket server: one executor serving every connection.
VARIABLES
  config,         \* the flags of the process: credentials file, OAuth client
  client,         \* per connection: what the browser has done
  handler,        \* per connection: the request and where its handler is
  turn,           \* per connection: the executor call in progress
  memory          \* the conversation buffer of the executor

turnVars ==
  <<maxIterations, pc, trace, pending, iterations, err, output, scratchpad, plans,
    dispatches, invocations>>

serverVars == <<config, client, handler, turn, memory>>

\* The argument normalizer on its own.
VARIABLES
  raw,            \* the Arguments text of a tool call, as the model wrote it
  normalized,     \* what normalizeToolInput made of it, and of its own result
  parsed          \* what ParseOutput made of a response with that tool call

normVars == <<raw, normalized, parsed>>

\* One planning call looked at on its own: what Plan hands to
\* LLM.GenerateContent and what ParseOutput makes of the response.
VARIABLES
  registry,       \* o.Tools: the tools of the agent, in order
  prompt,         \* the messages of the formatted prompt
  request,        \* the messages and function definitions of the latest call
  reply           \* the model's response to it and what ParseOutput returned

callVars == <<registry, prompt, request, reply>>

\* The /login route looked at on its own.
VARIABLES
  masterPassword, \* os.Getenv("MASTER_PASSWORD")
  jar,            \* the Auth cookie the browser holds, if any
  login,          \* the latest request to /login and the response to it
  root            \* how the browser's latest request to / was answered

loginVars == <<masterPassword, jar, login, root>>

\* One function of the handler, the tools or the notes called on its own.
VARIABLE
  unit            \* the call made: the function, its arguments, its result

vars == <<turnVars, serverVars, normVars, callVars, loginVars, unit>>

NoError == [kind |-> "none", msg |-> ""]

\* schema.AgentStep
AgentStep(action, observation) == [Action |-> action, Observation |-> observation]

\* The observation of an action whose tool is not registered.
NotFoundObservation(name) == <<"tool '">> \o name \o <<"' does not exist">>

\* A registry that finds a tool under every name.
Lookup_Any(name) == TRUE

\* lookup(name): whether the registry holds a tool of that name.
Lookup(name) == name \in ToolNames

\* DispatchStep that takes the tool's output, not its error, on a failure.
DispatchStep_DropsError(action, ret) ==
  IF ~Lookup(action.Tool)
  THEN AgentStep(action, NotFoundObservation(action.Tool))
  ELSE AgentStep(action, ret.out)

\* The step an action yields: ret is what the tool returns if it is invoked.
DispatchStep(action, ret) ==
  IF ~Lookup(action.Tool)
  THEN AgentStep(action, NotFoundObservation(action.Tool))
  ELSE IF ret.err # << >>
  THEN AgentStep(action, ret.err)
  ELSE AgentStep(action, ret.out)

\* How a dispatch went, for the history.
DispatchKind(action, ret) ==
  IF ~Lookup(action.Tool) THEN "notfound"
  ELSE IF ret.err # << >> THEN "error" ELSE "ok"

\* A cap check that lets one more batch through.
CapExceeded_OffByOne(n, cap) == n > cap + 1

\* Whether the loop stops after a batch that brought the count to n.
CapExceeded(n, cap) == n > cap

\* ------------------------------------------------------- the websocket server
\* The connections the server is holding: two browsers.
Conns == {"a", "b"}

\* A context.Context: whether it is cancelled, and its "OauthTokenSource" value.
Context(done, tokenSource) == [done |-> done, OauthTokenSource |-> tokenSource]

\* context.Background(): never cancelled, no values.
Background == Context(FALSE, Nil)

\* context.WithValue(ctx, "OauthTokenSource", tokenSource)
WithValue(ctx, tokenSource) == [ctx EXCEPT !.OauthTokenSource = Ptr(tokenSource)]

\* The flags the process is started with: the calendar tool's credentials file
\* and whether an OAuth client is configured.
Configs ==
  {[credFile |-> f, oauth |-> o] : f \in {<< >>, <<"credentials.json">>}, o \in BOOLEAN}

\* The "Auth" cookie of a request: absent, or a JWT with its signing method,
\* the key it was signed with, whether it has expired, and the OAuth token in
\* its claims, if any.
Token(c) == <<"token", c>>

Jwt(alg, key, expired, oauthToken) ==
  [alg |-> alg, key |-> key, expired |-> expired, OauthToken |-> oauthToken]

Cookies(c) ==
  {Nil,
   Ptr(Jwt("HS256", "hmacSecret", FALSE, Nil)),
   Ptr(Jwt("HS256", "hmacSecret", FALSE, Ptr(Token(c)))),
   Ptr(Jwt("HS256", "hmacSecret", TRUE, Ptr(Token(c)))),
   Ptr(Jwt("HS256", "other", FALSE, Ptr(Token(c)))),
   Ptr(Jwt("RS256", "hmacSecret", FALSE, Ptr(Token(c)))),
   Ptr(Jwt("none", "", FALSE, Ptr(Token(c))))}

\* A verifyToken that trusts the claims of any token it can read.
verifyToken_Unchecked(tokenStr) ==
  [claims |-> Ptr([OauthToken |-> tokenStr.OauthToken]), err |-> ""]

\* verifyToken: jwt.ParseWithClaims with a key function that accepts HMAC
\* methods only and hands out hmacSecret; the claims when the token is valid.
verifyToken(tokenStr) ==
  IF tokenStr.alg # "HS256"
  THEN [claims |-> Nil, err |-> "unexpected signing method"]
  ELSE IF tokenStr.key # "hmacSecret"
  THEN [claims |-> Nil, err |-> "signature is invalid"]
  ELSE IF tokenStr.expired
  THEN [claims |-> Nil, err |-> "token is expired"]
  ELSE [claims |-> Ptr([OauthToken |-> tokenStr.OauthToken]), err |-> ""]

\* oauthConfig.TokenSource(ctx, token) and oauth2.StaticTokenSource(token); a
\* value of any other kind is no oauth2.TokenSource.
TokenSource(kind, token) == [kind |-> kind, token |-> token]

\* A middleware that lets every request through as it came.
authMiddleware_PassThrough(oauth, cookie, ctx) == [redirect |-> << >>, ctx |-> ctx]

\* authMiddleware: the redirect it answers with, or the context it hands to next.
authMiddleware(oauth, cookie, ctx) ==
  IF cookie = Nil
  THEN [redirect |-> <<"/login">>, ctx |-> ctx]
  ELSE IF verifyToken(Deref(cookie)).err # ""
  THEN [redirect |-> <<"/login">>, ctx |-> ctx]
  ELSE LET claims == Deref(verifyToken(Deref(cookie)).claims)
           tokenSource ==
             IF claims.OauthToken # Nil
             THEN IF oauth
                  THEN Ptr(TokenSource("config", Deref(claims.OauthToken)))
                  ELSE Ptr(TokenSource("static", Deref(claims.OauthToken)))
             ELSE Nil
       IN [redirect |-> << >>,
           ctx |-> IF tokenSource # Nil THEN WithValue(ctx, Deref(tokenSource)) ELSE ctx]

\* A resolveCredential that prefers the credentials file.
resolveCredential_FileFirst(ctx, credFile) ==
  IF credFile # << >>
  THEN [opt |-> Ptr([kind |-> "WithCredentialsFile", with |-> credFile]), err |-> ""]
  ELSE IF ctx.OauthTokenSource # Nil
  THEN [opt |-> Ptr([kind |-> "WithTokenSource", with |-> Deref(ctx.OauthTokenSource)]),
        err |-> ""]
  ELSE [opt |-> Nil, err |-> "authentication for calendar tool is not configured yet"]

\* resolveCredential: the client option the calendar tools authenticate with.
resolveCredential(ctx, credFile) ==
  LET tokenSource == ctx.OauthTokenSource IN
  IF tokenSource = Nil /\ credFile = << >>
  THEN [opt |-> Nil, err |-> "authentication for calendar tool is not configured yet"]
  ELSE IF tokenSource # Nil
  THEN IF Deref(tokenSource).kind \notin {"config", "static"}
       THEN [opt |-> Nil, err |-> "context value OauthTokenSource is not valid"]
       ELSE [opt |-> Ptr([kind |-> "WithTokenSource", with |-> Deref(tokenSource)]),
             err |-> ""]
  ELSE [opt |-> Ptr([kind |-> "WithCredentialsFile", with |-> credFile]), err |-> ""]

\* http.ResponseWriter: the status line and headers go out with the first
\* Write or WriteHeader; what is set or written to the header afterwards is
\* not sent.
NewResponse ==
  [wroteHeader |-> FALSE, status |-> 0, Location |-> << >>, SetCookie |-> Nil,
   body |-> << >>]

\* w.Write(text)
Write(w, text) ==
  IF w.wroteHeader
  THEN [w EXCEPT !.body = @ \o text]
  ELSE [w EXCEPT !.wroteHeader = TRUE, !.status = 200, !.body = text]

\* http.Cookie{} and the cookie createTokenCookie builds around a token.
NoCookie == [Name |-> << >>, Value |-> Nil]

AuthCookie(t) == [Name |-> <<"Auth">>, Value |-> Ptr(t)]

\* http.SetCookie(w, &cookie): a cookie without a name adds no header.
SetCookie(w, cookie) ==
  IF cookie.Name = << >> \/ w.wroteHeader THEN w ELSE [w EXCEPT !.SetCookie = cookie.Value]

\* http.Redirect(w, r, url, code)
Redirect(w, url, code) ==
  IF w.wroteHeader THEN w
  ELSE [w EXCEPT !.wroteHeader = TRUE, !.status = code, !.Location = url]

\* createToken: a JWT signed with hmacSecret by HS256 that expires in two
\* hours, or an error.
createToken(token, signs) ==
  IF signs THEN [t |-> Ptr(Jwt("HS256", "hmacSecret", FALSE, token)), err |-> ""]
  ELSE [t |-> Nil, err |-> "signing failed"]

\* createTokenCookie: the response written to and the cookie returned.
createTokenCookie(token, w, signs) ==
  LET made == createToken(token, signs) IN
  IF made.err # ""
  THEN [w |-> Write(w, <<"Couldn't create jwt token">>), cookie |-> NoCookie]
  ELSE [w |-> w, cookie |-> AuthCookie(Deref(made.t))]

\* A login handler that skips the comparison with the master password.
groundhogLoginHandler_AnyPassword(method, form, master, signs) ==
  IF method # "POST" THEN Write(NewResponse, <<"<form>">>)
  ELSE IF form.err THEN Write(NewResponse, <<"Wrong request form">>)
  ELSE IF form.password = << >> THEN Write(NewResponse, <<"Provide pasword field">>)
  ELSE IF master = << >> THEN Write(NewResponse, <<"Initialise master password">>)
  ELSE LET made == createTokenCookie(Nil, NewResponse, signs) IN
       Redirect(SetCookie(made.w, made.cookie), <<"/">>, 303)

\* groundhogLoginHandler: the response to a request with the given method
\* and form (whether it parses, and the values of its password field), when
\* MASTER_PASSWORD is master and createToken succeeds or not.
groundhogLoginHandler(method, form, master, signs) ==
  IF method # "POST" THEN Write(NewResponse, <<"<form>">>)
  ELSE IF form.err THEN Write(NewResponse, <<"Wrong request form">>)
  ELSE IF form.password = << >> THEN Write(NewResponse, <<"Provide pasword field">>)
  ELSE IF master = << >> THEN Write(NewResponse, <<"Initialise master password">>)
  ELSE IF form.password[1] = master
  THEN LET made == createTokenCookie(Nil, NewResponse, signs) IN
       Redirect(SetCookie(made.w, made.cookie), <<"/">>, 303)
  ELSE Write(NewResponse, <<"Incorrect password">>)

\* patterns.AllPatterns, scaled down to the empty default and one pattern.
AllPatterns ==
  [name \in {"No pattern", "Plan Day"} |->
     IF name = "Plan Day"
     THEN <<"Based on the provided notes, create a detailed plan for my day.">>
     ELSE << >>]

\* The body of the loop of handleConnections for one decoded message msg, when
\* the executor returns ret = (out, err): the input the executor is called
\* with, the texts written to the connection, and whether the body panicked.
\* variant "server" is src/internal/server/server.go, "main" is src/cmd/main.go.
LoopBody(variant, msg, ret) ==
  LET patternText == IF msg.Pattern \in DOMAIN AllPatterns
                     THEN AllPatterns[msg.Pattern]
                     ELSE <<"Please act on the following request.">>
      userInput == IF msg.Message # << >>
                   THEN patternText \o <<"\n\nMy specific focus for this request is: \"">>
                          \o msg.Message \o <<"\"">>
                   ELSE patternText
      llmOut == IF ret.out = Nil THEN Nil ELSE Deref(ret.out).output
      isString == llmOut # Nil /\ Deref(llmOut).str
      response == IF isString THEN Deref(llmOut).val ELSE << >>
      sorry == <<"Sorry, I encountered an error.">>
  IN  IF variant = "server"
      THEN [input |-> userInput, panicked |-> FALSE,
            written |-> IF ret.err # "" THEN <<sorry>> ELSE <<response>>]
      ELSE IF ~isString
      THEN [input |-> msg.Message, panicked |-> TRUE, written |-> << >>]
      ELSE [input |-> msg.Message, panicked |-> FALSE,
            written |-> IF ret.err # "" THEN <<sorry>> ELSE <<response>>]

\* A connection nobody has opened, and an executor call that is not running.
NoHandler ==
  [pc |-> "none", r |-> Background, msgs |-> 0, decoded |-> 0, written |-> 0]

NoTurn ==
  [phase |-> "none", ctx |-> Background, history |-> << >>, plans |-> 0, tools |-> 0,
   rounds |-> 0, received |-> Nil, cred |-> Nil]

\* The normalizer is not being run on its own.
NoNormalizer ==
  /\ raw = << >>
  /\ normalized = << >>
  /\ parsed = Nil

\* No planning call is looked at on its own.
NoCall ==
  /\ registry = << >>
  /\ prompt = << >>
  /\ request = Nil
  /\ reply = Nil

\* Nobody logs in.
NoLogin ==
  /\ masterPassword = << >>
  /\ jar = Nil
  /\ login = Nil
  /\ root = "none"

\* No server is running: the turn is driven directly.
NoServer ==
  /\ config = [credFile |-> << >>, oauth |-> FALSE]
  /\ client = [c \in Conns |-> "idle"]
  /\ handler = [c \in Conns |-> NoHandler]
  /\ turn = [c \in Conns |-> NoTurn]
  /\ memory = << >>

Init ==
  /\ maxIterations \in 0..MaxCap
  /\ pc = "Planning"
  /\ trace = << >>
  /\ pending = << >>
  /\ iterations = 0
  /\ err = NoError
  /\ output = << >>
  /\ scratchpad = << >>
  /\ plans = << >>
  /\ dispatches = << >>
  /\ invocations = << >>
  /\ NoServer
  /\ NoNormalizer
  /\ NoCall
  /\ NoLogin
  /\ unit = Nil

\* One planning transition: Plan is called with the current steps. The model
\* is called only once the prompt is formatted.
Planning(formatOK, gen) ==
  /\ pc = "Planning"
  /\ ~formatOK => gen = NotCalled
  /\ scratchpad' = constructScratchPad(trace)
  /\ LET p == Plan(trace, formatOK, gen) IN
     /\ plans' = Append(plans, [gen |-> gen, formatOK |-> formatOK, given |-> trace,
                                scratchpad |-> constructScratchPad(trace),
                                returned |-> p])
     /\ IF p.panicked
        THEN /\ pc' = "Panicked"
             /\ UNCHANGED <<pending, err, output>>
        ELSE IF p.err # ""
        THEN /\ pc' = "Failed"
             /\ err' = [kind |-> "PlannerError", msg |-> p.err]
             /\ UNCHANGED <<pending, output>>
        ELSE IF p.finish # Nil
        THEN /\ pc' = "Finished"
             /\ output' = Deref(p.finish).output
             /\ UNCHANGED <<pending, err>>
        ELSE IF p.actions # << >>
        THEN /\ pc' = "ToolDispatch"
             /\ pending' = p.actions
             /\ UNCHANGED <<err, output>>
        ELSE /\ pc' = "Failed"
             /\ err' = [kind |-> "PlannerError", msg |-> "no actions and no finish"]
             /\ UNCHANGED <<pending, output>>
  /\ trace' = StepsAfterPlan(trace)
  /\ UNCHANGED <<maxIterations, iterations, dispatches, invocations>>
  /\ UNCHANGED <<serverVars, normVars, callVars, loginVars, unit>>

\* A dispatch that takes the last action of the batch first.
ToolDispatch_LastFirst(ret) ==
  /\ pc = "ToolDispatch"
  /\ pending # << >>
  /\ LET action == pending[Len(pending)] IN
     /\ trace' = Append(trace, DispatchStep(action, ret))
     /\ dispatches' = Append(dispatches, DispatchKind(action, ret))
     /\ invocations' = IF Lookup(action.Tool)
                       THEN Append(invocations,
                                   [tool |-> action.Tool, input |-> action.ToolInput])
                       ELSE invocations
  /\ pending' = SubSeq(pending, 1, Len(pending) - 1)
  /\ IF Len(pending) > 1
     THEN UNCHANGED <<pc, iterations, err>>
     ELSE /\ iterations' = iterations + 1
          /\ IF CapExceeded(iterations + 1, maxIterations)
             THEN /\ pc' = "Failed"
                  /\ err' = [kind |-> "MaxIterationsExceeded", msg |-> ""]
             ELSE /\ pc' = "Planning"
                  /\ UNCHANGED err
  /\ UNCHANGED <<maxIterations, output, scratchpad, plans>>
  /\ UNCHANGED <<serverVars, normVars, callVars, loginVars, unit>>

\* A dispatch that leaves an action whose tool failed in the batch, to be
\* dispatched again.
ToolDispatch_Retries(ret) ==
  /\ pc = "ToolDispatch"
  /\ pending # << >>
  /\ LET action == Head(pending) IN
     /\ trace' = Append(trace, DispatchStep(action, ret))
     /\ dispatches' = Append(dispatches, DispatchKind(action, ret))
     /\ invocations' = IF Lookup(action.Tool)
                       THEN Append(invocations,
                                   [tool |-> action.Tool, input |-> action.ToolInput])
                       ELSE invocations
     /\ pending' = IF DispatchKind(action, ret) = "error" THEN pending ELSE Tail(pending)
  /\ IF pending' # << >>
     THEN UNCHANGED <<pc, iterations, err>>
     ELSE /\ iterations' = iterations + 1
          /\ IF CapExceeded(iterations + 1, maxIterations)
             THEN /\ pc' = "Failed"
                  /\ err' = [kind |-> "MaxIterationsExceeded", msg |-> ""]
             ELSE /\ pc' = "Planning"
                  /\ UNCHANGED err
  /\ UNCHANGED <<maxIterations, output, scratchpad, plans>>
  /\ UNCHANGED <<serverVars, normVars, callVars, loginVars, unit>>

\* The dispatch of the next action of the batch; after the last one the
\* iteration count is incremented and checked against the cap.
ToolDispatch(ret) ==
  /\ pc = "ToolDispatch"
  /\ pending # << >>
  /\ LET action == Head(pending) IN
     /\ trace' = Append(trace, DispatchStep(action, ret))
     /\ dispatches' = Append(dispatches, DispatchKind(action, ret))
     /\ invocations' = IF Lookup(action.Tool)
                       THEN Append(invocations,
                                   [tool |-> action.Tool, input |-> action.ToolInput])
                       ELSE invocations
  /\ pending' = Tail(pending)
  /\ IF Tail(pending) # << >>
     THEN UNCHANGED <<pc, iterations, err>>
     ELSE /\ iterations' = iterations + 1
          /\ IF CapExceeded(iterations + 1, maxIterations)
             THEN /\ pc' = "Failed"
                  /\ err' = [kind |-> "MaxIterationsExceeded", msg |-> ""]
             ELSE /\ pc' = "Planning"
                  /\ UNCHANGED err
  /\ UNCHANGED <<maxIterations, output, scratchpad, plans>>
  /\ UNCHANGED <<serverVars, normVars, callVars, loginVars, unit>>

Next ==
  \/ \E formatOK \in BOOLEAN, gen \in GenerateResults : Planning(formatOK, gen)
  \/ \E ret \in ToolReturns : ToolDispatch(ret)

Spec == Init /\ [][Next]_vars

\* The model answers and every tool returns: neither blocks for ever.
FairSpec == Spec /\ WF_vars(Next)

Terminal == {"Finished", "Failed", "Panicked"}

\* ------------------------------------------ the scratchpad builder on its own
\* Steps as any caller could hand them over: two log texts, call ids that
\* repeat or are empty, two observations.
PadLogs == {<<"Invoking: ", "calculator", " with ", "2+2">>,
            <<"Invoking: ", "calendar", " with ", "{", "}">>}

PadSteps ==
  {AgentStep(AgentAction(<<l[2]>>, SubSeq(l, 4, Len(l)), l, id), obs) :
     l \in PadLogs, id \in {<<"c1">>, <<"c2">>, << >>}, obs \in {<<"4">>, <<"boom">>}}

PadInit ==
  /\ maxIterations = 0
  /\ pc = "Builder"
  /\ trace = << >>
  /\ pending = << >>
  /\ iterations = 0
  /\ err = NoError
  /\ output = << >>
  /\ scratchpad = constructScratchPad(<< >>)
  /\ plans = << >>
  /\ dispatches = << >>
  /\ invocations = << >>
  /\ NoServer
  /\ NoNormalizer
  /\ NoCall
  /\ NoLogin
  /\ unit = Nil

\* The builder is run on the sequence extended by one step.
BuildScratchPad(step) ==
  /\ pc = "Builder"
  /\ Len(trace) < MaxPadLen
  /\ trace' = Append(trace, step)
  /\ scratchpad' = constructScratchPad(trace')
  /\ UNCHANGED <<maxIterations, pc, pending, iterations, err, output, plans, dispatches,
                 invocations>>
  /\ UNCHANGED <<serverVars, normVars, callVars, loginVars, unit>>

PadNext == \E step \in PadSteps : BuildScratchPad(step)

PadSpec == PadInit /\ [][PadNext]_vars

\* ---------------------------------------------- the server's connections
\* The process starts: New registers /ws behind authMiddleware with the one
\* executor (and its one conversation buffer) that NewAgent built.
WsInit ==
  /\ maxIterations = 0
  /\ pc = "Server"
  /\ trace = << >>
  /\ pending = << >>
  /\ iterations = 0
  /\ err = NoError
  /\ output = << >>
  /\ scratchpad = << >>
  /\ plans = << >>
  /\ dispatches = << >>
  /\ invocations = << >>
  /\ config \in Configs
  /\ client = [c \in Conns |-> "idle"]
  /\ handler = [c \in Conns |-> NoHandler]
  /\ turn = [c \in Conns |-> NoTurn]
  /\ memory = << >>
  /\ NoNormalizer
  /\ NoCall
  /\ NoLogin
  /\ unit = Nil

\* The executor call of connection c is between its start and its return.
Running(c) == turn[c].phase \in {"InModel", "InTool"}

\* A browser requests /ws: the middleware redirects it or calls the handler,
\* which upgrades the connection (or returns when the upgrade fails).
Request(c, cookie, upgraded) ==
  /\ client[c] = "idle"
  /\ client' = [client EXCEPT ![c] = "connected"]
  /\ LET mw == authMiddleware(config.oauth, cookie, Background) IN
     handler' = [handler EXCEPT ![c] =
       IF mw.redirect # << >> THEN [NoHandler EXCEPT !.pc = "redirected", !.r = mw.ctx]
       ELSE IF ~upgraded THEN [NoHandler EXCEPT !.pc = "returned", !.r = mw.ctx]
       ELSE [NoHandler EXCEPT !.pc = "ReadMessage", !.r = mw.ctx]]
  /\ UNCHANGED <<config, turn, memory>>
  /\ UNCHANGED <<turnVars, normVars, callVars, loginVars, unit>>

\* The messages the handlers of the connections S have read so far.
RECURSIVE MessagesRead(_)
MessagesRead(S) ==
  IF S = {} THEN 0
  ELSE LET c == CHOOSE x \in S : TRUE IN handler[c].msgs + MessagesRead(S \ {c})

\* ws.ReadMessage returns. An error ends the handler; a message that is not
\* JSON is skipped; any other message starts an executor call with
\* context.Background(): the history is read and the first model call is made.
ReadMessage(c, valid) ==
  /\ handler[c].pc = "ReadMessage"
  /\ IF client[c] = "gone"
     THEN /\ valid
          /\ handler' = [handler EXCEPT ![c].pc = "returned"]
          /\ UNCHANGED turn
     ELSE /\ MessagesRead(Conns) < MaxMessages
          /\ IF ~valid
             THEN /\ handler' = [handler EXCEPT ![c].msgs = @ + 1]
                  /\ UNCHANGED turn
             ELSE /\ handler' = [handler EXCEPT ![c].msgs = @ + 1, ![c].decoded = @ + 1,
                                                ![c].pc = "Call"]
                  /\ turn' = [turn EXCEPT ![c] =
                       [NoTurn EXCEPT !.phase = "InModel", !.ctx = Background,
                                      !.history = memory, !.plans = 1]]
  /\ UNCHANGED <<config, client, memory>>
  /\ UNCHANGED <<turnVars, normVars, callVars, loginVars, unit>>

\* A handler that reads on without writing a reply.
Replied_Silent(c) ==
  /\ handler' = [handler EXCEPT ![c].pc = "ReadMessage"]
  /\ turn' = [turn EXCEPT ![c] = NoTurn]

\* The executor call of c is over: the handler writes its reply, the error
\* text or the output, with one ws.WriteMessage and reads on.
Replied(c) ==
  /\ handler' = [handler EXCEPT ![c].pc = "ReadMessage", ![c].written = @ + 1]
  /\ turn' = [turn EXCEPT ![c] = NoTurn]

\* The model call of c's turn returns: an error (always, once the turn's
\* context is cancelled), a tool request, which is dispatched to the calendar
\* tool with the turn's context, or the final answer, which is appended to the
\* conversation buffer.
ModelReturns(c, resp) ==
  /\ turn[c].phase = "InModel"
  /\ turn[c].ctx.done => resp = "error"
  /\ CASE resp = "error" -> Replied(c) /\ UNCHANGED memory
       [] resp = "finish" -> Replied(c) /\ memory' = Append(memory, c)
       [] resp = "tool" ->
            /\ turn' = [turn EXCEPT ![c].phase = "InTool", ![c].tools = @ + 1,
                                    ![c].received = Ptr(turn[c].ctx),
                                    ![c].cred = Ptr(resolveCredential(turn[c].ctx,
                                                                      config.credFile))]
            /\ UNCHANGED <<handler, memory>>
  /\ UNCHANGED <<config, client>>
  /\ UNCHANGED <<turnVars, normVars, callVars, loginVars, unit>>

\* The tool invocation of c's turn returns: the batch is over, and below the
\* cap the next model call is made.
ToolCallReturns(c) ==
  /\ turn[c].phase = "InTool"
  /\ IF CapExceeded(turn[c].rounds + 1, MaxWsIterations)
     THEN Replied(c)
     ELSE /\ turn' = [turn EXCEPT ![c].phase = "InModel", ![c].rounds = @ + 1,
                                  ![c].plans = @ + 1]
          /\ UNCHANGED handler
  /\ UNCHANGED <<config, client, memory>>
  /\ UNCHANGED <<turnVars, normVars, callVars, loginVars, unit>>

\* The browser goes away. Whether that cancels the request's context at once
\* is up to net/http and the upgraded connection.
ClientGone(c, cancelled) ==
  /\ client[c] = "connected"
  /\ client' = [client EXCEPT ![c] = "gone"]
  /\ handler' = [handler EXCEPT ![c].r.done = cancelled]
  /\ UNCHANGED <<config, turn, memory>>
  /\ UNCHANGED <<turnVars, normVars, callVars, loginVars, unit>>

WsNext ==
  \E c \in Conns :
    \/ \E cookie \in Cookies(c), upgraded \in BOOLEAN : Request(c, cookie, upgraded)
    \/ \E valid \in BOOLEAN : ReadMessage(c, valid)
    \/ \E resp \in {"error", "finish", "tool"} : ModelReturns(c, resp)
    \/ ToolCallReturns(c)
    \/ \E cancelled \in BOOLEAN : ClientGone(c, cancelled)

WsSpec == WsInit /\ [][WsNext]_vars

\* ------------------------------------------------------- the /login route
\* The passwords in play: the master password may be unset; a field may be
\* sent empty.
Passwords == {<< >>, <<"pw">>, <<"guess">>}

\* The forms of a request: one that does not parse, and those with no, one or
\* two values of the password field.
Forms ==
  {[err |-> TRUE, password |-> << >>]}
    \cup {[err |-> FALSE, password |-> v] :
            v \in UNION {[1..n -> Passwords] : n \in 0..MaxFieldValues}}

LoginInit ==
  /\ maxIterations = 0
  /\ pc = "Login"
  /\ trace = << >>
  /\ pending = << >>
  /\ iterations = 0
  /\ err = NoError
  /\ output = << >>
  /\ scratchpad = << >>
  /\ plans = << >>
  /\ dispatches = << >>
  /\ invocations = << >>
  /\ NoServer
  /\ NoNormalizer
  /\ NoCall
  /\ masterPassword \in {<< >>, <<"pw">>}
  /\ jar = Nil
  /\ login = Nil
  /\ root = "none"
  /\ unit = Nil

\* The browser sends a request to /login and keeps the cookie of the response,
\* if it sets one.
Login(method, form, signs) ==
  /\ pc = "Login"
  /\ LET w == groundhogLoginHandler(method, form, masterPassword, signs) IN
     /\ login' = Ptr([method |-> method, form |-> form, signs |-> signs, w |-> w])
     /\ jar' = IF w.SetCookie # Nil THEN w.SetCookie ELSE jar
  /\ root' = "none"
  /\ UNCHANGED masterPassword
  /\ UNCHANGED <<turnVars, serverVars, normVars, callVars, unit>>

\* The browser requests /, which New put behind authMiddleware, with the
\* cookie it holds.
RequestRoot ==
  /\ pc = "Login"
  /\ login # Nil
  /\ root = "none"
  /\ root' = IF authMiddleware(FALSE, jar, Background).redirect # << >>
             THEN "redirected" ELSE "served"
  /\ UNCHANGED <<masterPassword, jar, login>>
  /\ UNCHANGED <<turnVars, serverVars, normVars, callVars, unit>>

LoginNext ==
  \/ \E method \in {"GET", "POST"}, form \in Forms, signs \in BOOLEAN :
       Login(method, form, signs)
  \/ RequestRoot

LoginSpec == LoginInit /\ [][LoginNext]_vars

\* --------------------------------------------- single functions on their own
\* ------------------------------------------------------------ calendar tools
\* time.Parse on the time texts explored: the layout a text is written in
\* and the minutes from 2024-05-01T00:00 it reads as (in UTC for the layouts
\* that carry a zone or none is needed, on the wall clock for the local one).
\* A text with blanks around it or in another form matches no layout.
ParseLayouts(value) ==
  CASE value = <<"2024-05-01">> -> [layout |-> "DateOnly", t |-> 0]
    [] value = <<"2024-05-02">> -> [layout |-> "DateOnly", t |-> 1440]
    [] value = <<"2024-05-03">> -> [layout |-> "DateOnly", t |-> 2880]
    [] value = <<"2024-05-01T10:00:00Z">> -> [layout |-> "RFC3339", t |-> 600]
    [] value = <<"2024-05-01T11:00:00Z">> -> [layout |-> "RFC3339", t |-> 660]
    [] value = <<"2024-05-01T12:00:00+02:00">> -> [layout |-> "RFC3339", t |-> 600]
    [] value = <<"2024-05-01T11:30">> -> [layout |-> "Local", t |-> 690]
    [] OTHER -> [layout |-> "none", t |-> 0]

\* parseTime: the instant a time text stands for and whether it is date-only.
\* LoadLocation gives the minutes a location is ahead of UTC in May 2024, or
\* nothing for a name that is no location; the empty name stands for
\* time.Local, taken to be UTC.
parseTime(value, timeZone) ==
  LET trimmedTZ == TrimSpace(timeZone)
      p == ParseLayouts(value)
      LoadLocation(name) == CASE name = << >> -> Ptr(0)
                              [] name = <<"Europe/Berlin">> -> Ptr(120)
                              [] OTHER -> Nil
  IN  IF value = << >>
      THEN [t |-> 0, allDay |-> FALSE, err |-> "time value is empty"]
      ELSE IF p.layout = "RFC3339" THEN [t |-> p.t, allDay |-> FALSE, err |-> ""]
      ELSE IF p.layout = "DateOnly" THEN [t |-> p.t, allDay |-> TRUE, err |-> ""]
      ELSE IF LoadLocation(trimmedTZ) = Nil
      THEN [t |-> 0, allDay |-> FALSE, err |-> "invalid time_zone"]
      ELSE IF p.layout = "Local"
      THEN [t |-> p.t - Deref(LoadLocation(trimmedTZ)), allDay |-> FALSE, err |-> ""]
      ELSE [t |-> 0, allDay |-> FALSE, err |-> "could not parse time"]

\* The input string of a tool call is given by its kind: empty, blank, a
\* text that is no JSON, or a JSON object, and by the struct json.Unmarshal
\* fills from the object.
\* parseAddEventInput and validateAddEventInput: the error, if any.
parseAddEventInput(input) ==
  IF input.kind \in {"empty", "blank"}
  THEN "provide event details as a JSON object in the tool input"
  ELSE IF input.kind # "object"
  THEN "invalid add event payload; expected a JSON object"
  ELSE IF TrimSpace(input.payload.Summary) = << >>
  THEN "summary is required to create an event"
  ELSE IF TrimSpace(input.payload.StartTime) = << >>
  THEN "start_time is required to create an event"
  ELSE ""

\* A prepareEventTimes that accepts whatever end it arrives at.
prepareEventTimes_AnyEnd(in) ==
  LET s == parseTime(in.StartTime, in.TimeZone)
      e == parseTime(in.EndTime, in.TimeZone)
  IN  [start |-> s.t, end |-> IF in.EndTime # << >> THEN e.t ELSE s.t + 60,
       allDay |-> s.allDay, tz |-> TrimSpace(in.TimeZone), err |-> ""]

\* prepareEventTimes: the start and end of a new event, whether it is an
\* all-day event, and its time zone.
prepareEventTimes(in) ==
  LET s == parseTime(in.StartTime, in.TimeZone)
      e == parseTime(in.EndTime, in.TimeZone)
      failed(msg) == [start |-> 0, end |-> 0, allDay |-> FALSE, tz |-> << >>, err |-> msg]
      end == IF in.EndTime # << >> THEN e.t
             ELSE IF s.allDay THEN s.t + 1440
             ELSE IF in.DurationMinutes > 0 THEN s.t + in.DurationMinutes
             ELSE s.t + 60
  IN  IF s.err # "" THEN failed("invalid start_time")
      ELSE IF in.EndTime # << >> /\ e.err # "" THEN failed("invalid end_time")
      ELSE IF in.EndTime # << >> /\ s.allDay # e.allDay
      THEN failed("start_time and end_time must both be date-only or both include time")
      ELSE IF end < s.t \/ end = s.t THEN failed("end time must be after start time")
      ELSE IF s.allDay
      THEN [start |-> s.t, end |-> end, allDay |-> TRUE, tz |-> << >>, err |-> ""]
      ELSE [start |-> s.t, end |-> end, allDay |-> FALSE, tz |-> TrimSpace(in.TimeZone),
            err |-> ""]
\* (end of prepareEventTimes)

\* calendar.EventDateTime as the tools fill it: Date for an all-day event,
\* DateTime and TimeZone otherwise; Format is the text Time.Format writes for
\* the instant t in a layout.
EventDateTime(t, allDay, tz) ==
  LET Format(u, layout) == <<layout \o "@" \o ToString(u)>> IN
  IF allDay
  THEN [Date |-> Format(t, "DateOnly"), DateTime |-> << >>, TimeZone |-> << >>]
  ELSE [Date |-> << >>, DateTime |-> Format(t, "RFC3339"), TimeZone |-> tz]

\* AddEvent.Call: the requests it sends to the calendar service, in order,
\* and the error it returns; accepted tells whether the service accepts the
\* insert.
AddEvent_Call(ctx, credFile, input, accepted) ==
  LET payload == input.payload
      times == prepareEventTimes(payload)
      event == [Summary |-> payload.Summary, Description |-> payload.Description,
                Location |-> payload.Location,
                Start |-> Ptr(EventDateTime(times.start, times.allDay, times.tz)),
                End |-> Ptr(EventDateTime(times.end, times.allDay, times.tz))]
  IN  IF ctx.done THEN [calls |-> << >>, err |-> "context canceled", times |-> Nil]
      ELSE IF parseAddEventInput(input) # ""
      THEN [calls |-> << >>, err |-> parseAddEventInput(input), times |-> Nil]
      ELSE IF resolveCredential(ctx, credFile).err # ""
      THEN [calls |-> << >>, err |-> resolveCredential(ctx, credFile).err, times |-> Nil]
      ELSE IF times.err # ""
      THEN [calls |-> << >>, err |-> times.err, times |-> Ptr(times)]
      ELSE [calls |-> <<[method |-> "Events.Insert", event |-> Ptr(event),
                         opt |-> Deref(resolveCredential(ctx, credFile).opt)]>>,
            err |-> IF accepted THEN "" ELSE "unable to create event",
            times |-> Ptr(times)]

\* parseEditEventInput: the error it rejects a payload with, if any.
parseEditEventInput(input) ==
  LET payload == input.payload IN
  IF input.kind \in {"empty", "blank"}
  THEN "provide event details as JSON in the tool input"
  ELSE IF input.kind # "object"
  THEN "invalid edit event payload; expected JSON"
  ELSE IF TrimSpace(payload.EventID) = << >>
  THEN "event_id is required to edit an event"
  ELSE IF /\ payload.Summary = Nil /\ payload.Description = Nil
          /\ payload.StartTime = Nil /\ payload.EndTime = Nil
          /\ payload.DurationMinutes = Nil /\ payload.TimeZone = Nil
          /\ payload.Location = Nil
  THEN "provide at least one field to update"
  ELSE IF payload.Summary # Nil /\ TrimSpace(Deref(payload.Summary)) = << >>
  THEN "summary cannot be empty when provided"
  ELSE IF payload.DurationMinutes # Nil /\ Deref(payload.DurationMinutes) <= 0
  THEN "duration_minutes must be greater than 0"
  ELSE ""

\* computeEditedTimes: the start and end of an edited event.
computeEditedTimes(existing, in) ==
  LET pickString(value, fallback) ==
        IF value # Nil THEN TrimSpace(Deref(value)) ELSE TrimSpace(fallback)
      eventTimeString(t) ==
        IF t = Nil THEN << >>
        ELSE IF TrimSpace(Deref(t).DateTime) # << >> THEN Deref(t).DateTime
        ELSE TrimSpace(Deref(t).Date)
      existingTimezone(e) ==
        IF e.Start # Nil /\ TrimSpace(Deref(e.Start).TimeZone) # << >>
        THEN TrimSpace(Deref(e.Start).TimeZone)
        ELSE IF e.End # Nil /\ TrimSpace(Deref(e.End).TimeZone) # << >>
        THEN TrimSpace(Deref(e.End).TimeZone)
        ELSE << >>
      startInput == pickString(in.StartTime, eventTimeString(existing.Start))
      endInput == pickString(in.EndTime, eventTimeString(existing.End))
      tz == pickString(in.TimeZone, existingTimezone(existing))
      s == parseTime(startInput, tz)
      e == parseTime(endInput, tz)
      byDuration == in.EndTime = Nil /\ in.DurationMinutes # Nil
      end == IF ~byDuration THEN e.t
             ELSE IF s.allDay THEN s.t + 1440
             ELSE s.t + Deref(in.DurationMinutes)
      endAllDay == IF ~byDuration THEN e.allDay ELSE s.allDay
      failed(msg) == [start |-> 0, end |-> 0, allDay |-> FALSE, tz |-> << >>, err |-> msg]
  IN  IF startInput = << >>
      THEN failed("existing event has no start time; please provide start_time")
      ELSE IF s.err # "" THEN failed("invalid start_time")
      ELSE IF ~byDuration /\ e.err # "" THEN failed("invalid end_time")
      ELSE IF s.allDay # endAllDay
      THEN failed("start_time and end_time must both be date-only or both include time")
      ELSE IF ~(end > s.t) THEN failed("end time must be after start time")
      ELSE IF s.allDay
      THEN [start |-> s.t, end |-> end, allDay |-> TRUE, tz |-> << >>, err |-> ""]
      ELSE [start |-> s.t, end |-> end, allDay |-> FALSE, tz |-> tz, err |-> ""]

\* An EditEvent.Call that sends the payload's fields alone.
EditEvent_Updated_PayloadOnly(existing, payload) ==
  [Summary |-> IF payload.Summary # Nil THEN TrimSpace(Deref(payload.Summary)) ELSE << >>,
   Description |-> IF payload.Description # Nil THEN TrimSpace(Deref(payload.Description))
                   ELSE << >>,
   Location |-> IF payload.Location # Nil THEN TrimSpace(Deref(payload.Location))
                ELSE << >>,
   Start |-> Nil, End |-> Nil]

\* The event EditEvent.Call builds from the existing one before it looks at
\* the times: the existing values, overridden by what the payload provides.
EditEvent_Updated(existing, payload) ==
  [Summary |-> IF payload.Summary # Nil THEN TrimSpace(Deref(payload.Summary))
               ELSE existing.Summary,
   Description |-> IF payload.Description # Nil THEN TrimSpace(Deref(payload.Description))
                   ELSE existing.Description,
   Location |-> IF payload.Location # Nil THEN TrimSpace(Deref(payload.Location))
                ELSE existing.Location,
   Start |-> existing.Start, End |-> existing.End]
\* (end of EditEvent_Updated)

\* EditEvent.Call: the requests it sends to the calendar service, in order,
\* and the error it returns. found is the event the service holds under the
\* id, if any; accepted tells whether the service accepts the update.
EditEvent_Call(ctx, credFile, input, found, accepted) ==
  LET payload == input.payload
      get == [method |-> "Events.Get", event |-> Nil,
              opt |-> Deref(resolveCredential(ctx, credFile).opt)]
      existing == Deref(found)
      timesChanged == \/ payload.StartTime # Nil \/ payload.EndTime # Nil
                      \/ payload.DurationMinutes # Nil \/ payload.TimeZone # Nil
      times == computeEditedTimes(existing, payload)
      updated == IF timesChanged
                 THEN [EditEvent_Updated(existing, payload) EXCEPT
                         !.Start = Ptr(EventDateTime(times.start, times.allDay, times.tz)),
                         !.End = Ptr(EventDateTime(times.end, times.allDay, times.tz))]
                 ELSE EditEvent_Updated(existing, payload)
  IN  IF ctx.done THEN [calls |-> << >>, err |-> "context canceled", times |-> Nil]
      ELSE IF parseEditEventInput(input) # ""
      THEN [calls |-> << >>, err |-> parseEditEventInput(input), times |-> Nil]
      ELSE IF resolveCredential(ctx, credFile).err # ""
      THEN [calls |-> << >>, err |-> resolveCredential(ctx, credFile).err, times |-> Nil]
      ELSE IF found = Nil
      THEN [calls |-> <<get>>, err |-> "unable to fetch event", times |-> Nil]
      ELSE IF timesChanged /\ times.err # ""
      THEN [calls |-> <<get>>, err |-> times.err, times |-> Ptr(times)]
      ELSE [calls |-> <<get, [get EXCEPT !.method = "Events.Update",
                                         !.event = Ptr(updated)]>>,
            err |-> IF accepted THEN "" ELSE "unable to update event",
            times |-> IF timesChanged THEN Ptr(times) ELSE Nil]

\* resolveCredential of the tasks tools: as for the calendar tools, but a
\* blank credentials file counts as none.
resolveCredential_Tasks(ctx, credFile) ==
  IF ctx.OauthTokenSource = Nil /\ TrimSpace(credFile) = << >>
  THEN [opt |-> Nil, err |-> "authentication for google tasks tool is not configured yet"]
  ELSE resolveCredential(ctx, credFile)

\* An AddTask.Call that sends the task before it has read the dates.
AddTask_Call_InsertFirst(ctx, credFile, input, accepted) ==
  LET payload == input.payload
      bad(value) == TrimSpace(value) # << >>
                      /\ ParseLayouts(TrimSpace(value)).layout \notin {"RFC3339", "DateOnly"}
      insert == [method |-> "Tasks.Insert",
                 event |-> Ptr([Title |-> TrimSpace(payload.Title), Due |-> << >>,
                                Status |-> payload.Status]),
                 opt |-> Deref(resolveCredential_Tasks(ctx, credFile).opt)]
  IN  IF ctx.done THEN [calls |-> << >>, err |-> "context canceled"]
      ELSE IF input.kind # "object" \/ TrimSpace(payload.Title) = << >>
      THEN [calls |-> << >>, err |-> "title is required to create a task"]
      ELSE IF resolveCredential_Tasks(ctx, credFile).err # ""
      THEN [calls |-> << >>, err |-> resolveCredential_Tasks(ctx, credFile).err]
      ELSE IF bad(payload.StartTime) THEN [calls |-> <<insert>>, err |-> "invalid start_time"]
      ELSE IF bad(payload.Due) THEN [calls |-> <<insert>>, err |-> "invalid due"]
      ELSE [calls |-> <<insert>>, err |-> IF accepted THEN "" ELSE "unable to create task"]

\* AddTask.Call: the requests it sends to the tasks service, in order, and
\* the error it returns. normalizeDue reads a trimmed RFC3339 or date-only
\* text and writes it back as RFC3339; parseAddTaskInput rejects an input
\* that is empty, no JSON, without a title, or with an unknown status.
AddTask_Call(ctx, credFile, input, accepted) ==
  LET payload == input.payload
      parseAddTaskInput ==
        IF input.kind \in {"empty", "blank"}
        THEN "provide task details as a JSON object in the tool input"
        ELSE IF input.kind # "object"
        THEN "invalid add task payload; expected a JSON object"
        ELSE IF TrimSpace(payload.Title) = << >>
        THEN "title is required to create a task"
        ELSE IF payload.Status \notin {<< >>, <<"needsAction">>, <<"completed">>}
        THEN "status must be needsAction or completed when provided"
        ELSE ""
      normalizeDue(value) ==
        LET p == ParseLayouts(TrimSpace(value)) IN
        IF TrimSpace(value) = << >> THEN [text |-> << >>, err |-> ""]
        ELSE IF p.layout \in {"RFC3339", "DateOnly"}
        THEN [text |-> <<"RFC3339@" \o ToString(p.t)>>, err |-> ""]
        ELSE [text |-> << >>, err |-> "could not parse due date"]
      startNormalized == IF payload.StartTime # << >>
                         THEN normalizeDue(payload.StartTime)
                         ELSE [text |-> << >>, err |-> ""]
      due == IF payload.Due # << >> THEN normalizeDue(payload.Due)
             ELSE startNormalized
      insert == [method |-> "Tasks.Insert",
                 event |-> Ptr([Title |-> TrimSpace(payload.Title), Due |-> due.text,
                                Status |-> payload.Status]),
                 opt |-> Deref(resolveCredential_Tasks(ctx, credFile).opt)]
  IN  IF ctx.done THEN [calls |-> << >>, err |-> "context canceled"]
      ELSE IF parseAddTaskInput # "" THEN [calls |-> << >>, err |-> parseAddTaskInput]
      ELSE IF resolveCredential_Tasks(ctx, credFile).err # ""
      THEN [calls |-> << >>, err |-> resolveCredential_Tasks(ctx, credFile).err]
      ELSE IF startNormalized.err # "" THEN [calls |-> << >>, err |-> "invalid start_time"]
      ELSE IF payload.Due # << >> /\ due.err # "" THEN [calls |-> << >>, err |-> "invalid due"]
      ELSE [calls |-> <<insert>>, err |-> IF accepted THEN "" ELSE "unable to create task"]
\* (end of AddTask.Call)

\* Who calls a tool: a context that is live or cancelled and carries no
\* token source, a token source, or a value that is none; and the
\* credentials file the tool was built with: none, a blank name or a file.
Callers ==
  {[ctx |-> Context(done, ts), credFile |-> f] :
     done \in BOOLEAN,
     ts \in {Nil, Ptr(TokenSource("static", Token("a"))), Ptr(TokenSource("string", Token("a")))},
     f \in {<< >>, <<" ">>, <<"credentials.json">>}}

\* The inputs of add-event.
AddEventInputs ==
  {[kind |-> k,
    payload |-> [Summary |-> << >>, Description |-> << >>, StartTime |-> << >>,
                 EndTime |-> << >>, DurationMinutes |-> 0, TimeZone |-> << >>,
                 Location |-> << >>]] : k \in {"empty", "blank", "text"}}
  \cup
  {[kind |-> "object",
    payload |-> [Summary |-> summary, Description |-> <<"at noon">>, StartTime |-> start,
                 EndTime |-> end, DurationMinutes |-> minutes, TimeZone |-> tz,
                 Location |-> << >>]] :
     summary \in {<<" ">>, <<"Lunch">>},
     start \in {<< >>, <<"2024-05-01">>, <<"2024-05-01T10:00:00Z">>,
                <<"2024-05-01T11:30">>, <<"tomorrow">>},
     end \in {<< >>, <<"2024-05-01">>, <<"2024-05-02">>, <<"2024-05-01T11:00:00Z">>,
              <<"2024-05-01T12:00:00+02:00">>},
     minutes \in {-5, 0, 30},
     tz \in {<< >>, <<"Europe/Berlin">>, <<"Mars">>}}

\* The events the calendar service holds under the id of an edit: none, a
\* two-day all-day event, a timed event, an event without times.
ExistingEvents ==
  {Nil,
   Ptr([Summary |-> <<"Trip">>, Description |-> <<"by train">>, Location |-> <<"Oslo">>,
        Start |-> Ptr([Date |-> <<"2024-05-01">>, DateTime |-> << >>, TimeZone |-> << >>]),
        End |-> Ptr([Date |-> <<"2024-05-03">>, DateTime |-> << >>, TimeZone |-> << >>])]),
   Ptr([Summary |-> <<"Standup">>, Description |-> << >>, Location |-> <<"Room 1">>,
        Start |-> Ptr([Date |-> << >>, DateTime |-> <<"2024-05-01T10:00:00Z">>,
                       TimeZone |-> <<"Europe/Berlin">>]),
        End |-> Ptr([Date |-> << >>, DateTime |-> <<"2024-05-01T11:00:00Z">>,
                     TimeZone |-> <<"Europe/Berlin">>])]),
   Ptr([Summary |-> <<"Draft">>, Description |-> << >>, Location |-> << >>,
        Start |-> Nil, End |-> Nil])}

\* The inputs of edit-event.
EditEventInputs ==
  {[kind |-> k,
    payload |-> [EventID |-> << >>, Summary |-> Nil, Description |-> Nil,
                 StartTime |-> Nil, EndTime |-> Nil, DurationMinutes |-> Nil,
                 TimeZone |-> Nil, Location |-> Nil]] : k \in {"empty", "blank", "text"}}
  \cup
  {[kind |-> "object",
    payload |-> [EventID |-> id, Summary |-> summary, Description |-> description,
                 StartTime |-> start, EndTime |-> end, DurationMinutes |-> minutes,
                 TimeZone |-> tz, Location |-> location]] :
     id \in {<< >>, <<"e1">>},
     summary \in {Nil, Ptr(<<" ">>), Ptr(<<"Lunch", " ">>)},
     description \in {Nil, Ptr(<<"new">>)},
     location \in {Nil, Ptr(<< >>)},
     start \in {Nil, Ptr(<<"2024-05-01">>), Ptr(<<"2024-05-01T11:00:00Z">>), Ptr(<<"tomorrow">>)},
     end \in {Nil, Ptr(<<"2024-05-02">>), Ptr(<<"2024-05-01T11:00:00Z">>)},
     minutes \in {Nil, Ptr(0), Ptr(30)},
     tz \in {Nil, Ptr(<<"Europe/Berlin">>)}}

\* The inputs of add-task.
AddTaskInputs ==
  {[kind |-> k,
    payload |-> [Title |-> << >>, StartTime |-> << >>, Due |-> << >>, Status |-> << >>]] :
     k \in {"empty", "blank", "text"}}
  \cup
  {[kind |-> "object",
    payload |-> [Title |-> title, StartTime |-> start, Due |-> due, Status |-> status]] :
     title \in {<< >>, <<"Buy milk">>},
     start \in {<< >>, <<" ">>, <<"2024-05-01">>, <<"tomorrow">>},
     due \in {<< >>, <<"2024-05-01T10:00:00Z">>, <<"2024-05-01T11:30">>},
     status \in {<< >>, <<"completed">>, <<"done">>}}

\* -------------------------------------------------------------------- notes
\* The file names a notes directory can hold, each as its parts between the
\* dots, in the order os.ReadDir lists them (by file name).
NoteNames ==
  <<<<"2024-01-01", "md">>, <<"2024-01-01", "txt">>, <<"2024-01-02", "md">>,
    <<"2024-01-03-trip", "md">>, <<"2024-01-03", "md">>, <<"2024-13-45", "md">>,
    <<"todo", "2024-01-02", "md">>, <<"todo", "md">>>>

\* The directories explored: what is left of the list of names when files
\* are missing, up to MaxEntries files.
Directories ==
  LET Nth(I, k) == CHOOSE i \in I : Cardinality({j \in I : j < i}) = k - 1
  IN  {[k \in 1..Cardinality(I) |-> NoteNames[Nth(I, k)]] :
         I \in {J \in SUBSET DOMAIN NoteNames : Cardinality(J) <= MaxEntries}}

\* The date a file name is accepted with, in days from 2023-12-31, if it is
\* accepted: datePattern must match somewhere in the name, and the part of
\* the name before the first dot must read as a date with time.DateOnly.
NoteDate(fileName) ==
  LET matches == \E i \in DOMAIN fileName :
                   fileName[i] \in {"2024-01-01", "2024-01-02", "2024-01-03",
                                    "2024-01-03-trip", "2024-13-45"}
      nameParts == fileName
  IN  IF ~matches THEN Nil
      ELSE CASE nameParts[1] = "2024-01-01" -> Ptr(1)
             [] nameParts[1] = "2024-01-02" -> Ptr(2)
             [] nameParts[1] = "2024-01-03" -> Ptr(3)
             [] OTHER -> Nil

\* sort.Slice by Time.Before: the orders it can leave the notes in. The sort
\* is not stable, so notes of the same date come out in any order.
SortedOrders(notes) ==
  IF notes = << >> THEN {<< >>}
  ELSE {s \in {[i \in DOMAIN notes |-> notes[p[i]]] : p \in Permutations(DOMAIN notes)} :
          \A i \in 1..(Len(s) - 1) : ~(s[i + 1].Time < s[i].Time)}

\* A GetLastNotes that returns the oldest notes.
GetLastNotes_Oldest(dirEntries, amount) ==
  LET accepted == SelectSeq(dirEntries, LAMBDA fileName : NoteDate(fileName) # Nil)
      all == [i \in DOMAIN accepted |->
                [FilePath |-> accepted[i], Time |-> Deref(NoteDate(accepted[i]))]]
  IN  {IF Len(s) > amount THEN SubSeq(s, 1, amount) ELSE s : s \in SortedOrders(all)}

\* GetLastNotes of patterns.go: collects the accepted files, sorts once and
\* keeps the last amount; the results it can return.
GetLastNotes(dirEntries, amount) ==
  LET limit == IF amount <= 0 THEN 5 ELSE amount
      accepted == SelectSeq(dirEntries, LAMBDA fileName : NoteDate(fileName) # Nil)
      all == [i \in DOMAIN accepted |->
                [FilePath |-> accepted[i], Time |-> Deref(NoteDate(accepted[i]))]]
  IN  {IF Len(s) > limit THEN SubSeq(s, Len(s) - limit + 1, Len(s)) ELSE s :
         s \in SortedOrders(all)}
\* (end of GetLastNotes)

\* GetLastNotes of part_003: sorts after each accepted file and drops the
\* first note when there are more than amount; the results it can return
\* from the notes collected so far and the entries still to read.
RECURSIVE GetLastNotes_Incremental(_, _, _)
GetLastNotes_Incremental(dirEntries, amount, notes) ==
  IF dirEntries = << >> THEN {notes}
  ELSE IF NoteDate(Head(dirEntries)) = Nil
  THEN GetLastNotes_Incremental(Tail(dirEntries), amount, notes)
  ELSE UNION {GetLastNotes_Incremental(Tail(dirEntries), amount,
                                       IF Len(s) > amount THEN Tail(s) ELSE s) :
                s \in SortedOrders(Append(notes,
                                          [FilePath |-> Head(dirEntries),
                                           Time |-> Deref(NoteDate(Head(dirEntries)))]))}

\* The decoded messages of a browser: a known, the default, an unknown or no
\* pattern name, with or without a text.
WebSocketMessages ==
  {[Message |-> m, Pattern |-> p] :
     m \in {<< >>, <<"gym">>}, p \in {"Plan Day", "No pattern", "Nope", ""}}

\* What the executor call can return: the output map (nil, without the key
\* "output", or with a string or another value under it) and the error.
ExecutorReturns ==
  {[out |-> Nil, err |-> "agent failed"],
   [out |-> Ptr([output |-> Nil]), err |-> "agent not finished"],
   [out |-> Ptr([output |-> Ptr([str |-> TRUE, val |-> <<"partial">>])]),
    err |-> "agent failed"],
   [out |-> Ptr([output |-> Ptr([str |-> TRUE, val |-> <<"4">>])]), err |-> ""],
   [out |-> Ptr([output |-> Ptr([str |-> FALSE, val |-> << >>])]), err |-> ""]}

UnitInit ==
  /\ maxIterations = 0
  /\ pc = "Unit"
  /\ trace = << >>
  /\ pending = << >>
  /\ iterations = 0
  /\ err = NoError
  /\ output = << >>
  /\ scratchpad = << >>
  /\ plans = << >>
  /\ dispatches = << >>
  /\ invocations = << >>
  /\ NoServer
  /\ NoNormalizer
  /\ NoCall
  /\ masterPassword = << >>
  /\ jar = Nil
  /\ login = Nil
  /\ root = "none"
  /\ unit = Nil

\* A handler takes one decoded message through the body of its loop.
Handle(variant, msg, ret) ==
  /\ pc = "Unit"
  /\ unit = Nil
  /\ unit' = Ptr([fn |-> "handleConnections", variant |-> variant, msg |-> msg,
                  ret |-> ret, result |-> LoopBody(variant, msg, ret)])
  /\ UNCHANGED <<turnVars, serverVars, normVars, callVars, loginVars>>

\* The agent calls add-event.
CallAddEvent(caller, input, accepted) ==
  /\ pc = "Unit"
  /\ unit = Nil
  /\ unit' = Ptr([fn |-> "AddEvent.Call", caller |-> caller, input |-> input,
                  result |-> AddEvent_Call(caller.ctx, caller.credFile, input, accepted)])
  /\ UNCHANGED <<turnVars, serverVars, normVars, callVars, loginVars>>

\* The agent calls edit-event.
CallEditEvent(caller, input, found, accepted) ==
  /\ pc = "Unit"
  /\ unit = Nil
  /\ unit' = Ptr([fn |-> "EditEvent.Call", caller |-> caller, input |-> input,
                  found |-> found,
                  result |-> EditEvent_Call(caller.ctx, caller.credFile, input, found,
                                            accepted)])
  /\ UNCHANGED <<turnVars, serverVars, normVars, callVars, loginVars>>

\* The agent calls add-task.
CallAddTask(caller, input, accepted) ==
  /\ pc = "Unit"
  /\ unit = Nil
  /\ unit' = Ptr([fn |-> "AddTask.Call", caller |-> caller, input |-> input,
                  result |-> AddTask_Call(caller.ctx, caller.credFile, input, accepted)])
  /\ UNCHANGED <<turnVars, serverVars, normVars, callVars, loginVars>>

\* The notes of a directory are looked up, by either implementation.
ReadNotes(dirEntries, amount) ==
  /\ pc = "Unit"
  /\ unit = Nil
  /\ unit' = Ptr([fn |-> "GetLastNotes", dirEntries |-> dirEntries, amount |-> amount,
                  once |-> GetLastNotes(dirEntries, amount),
                  incremental |-> GetLastNotes_Incremental(dirEntries, amount, << >>)])
  /\ UNCHANGED <<turnVars, serverVars, normVars, callVars, loginVars>>

\* One call is made, and nothing after it.
UnitNext ==
  \/ /\ unit = Nil
     /\ \E variant \in {"server", "main"}, msg \in WebSocketMessages,
           ret \in ExecutorReturns :
          Handle(variant, msg, ret)
  \/ /\ unit = Nil
     /\ \E caller \in Callers, input \in AddEventInputs, accepted \in BOOLEAN :
          CallAddEvent(caller, input, accepted)
  \/ /\ unit = Nil
     /\ \E caller \in Callers, input \in EditEventInputs, found \in ExistingEvents,
           accepted \in BOOLEAN :
          CallEditEvent(caller, input, found, accepted)
  \/ /\ unit = Nil
     /\ \E caller \in Callers, input \in AddTaskInputs, accepted \in BOOLEAN :
          CallAddTask(caller, input, accepted)
  \/ /\ unit = Nil
     /\ \E dirEntries \in Directories, amount \in 1..MaxAmount :
          ReadNotes(dirEntries, amount)

UnitSpec == UnitInit /\ [][UnitNext]_vars

\* ------------------------------------------- the argument normalizer on its own
\* The Arguments texts explored: objects of up to MaxMembers members over a few
\* keys and scalar values, written with or without blanks, in any key order and
\* with repeated keys; and texts that are no JSON object.
ArgKeys == {Lit("a"), Lit("b"), Lit("__arg1")}

ArgScalars == {Lit("2+2"), Lit("a"), "1"}

MemberSeqs == UNION {[1..n -> ArgKeys \X ArgScalars] : n \in 0..MaxMembers}

Blank(blank) == IF blank THEN <<" ">> ELSE << >>

RECURSIVE MembersText(_, _)
MembersText(ms, blank) ==
  IF ms = << >> THEN << >>
  ELSE <<ms[1][1], ":">> \o Blank(blank) \o <<ms[1][2]>>
         \o (IF Len(ms) > 1 THEN <<",">> \o Blank(blank) ELSE << >>)
         \o MembersText(Tail(ms), blank)

ObjectText(ms, blank) == <<"{">> \o Blank(blank) \o MembersText(ms, blank) \o <<"}">>

ObjectTexts == {ObjectText(ms, blank) : ms \in MemberSeqs, blank \in BOOLEAN}

NotObjectTexts ==
  {<< >>, <<"2+2">>, <<"2+2", " ", "2+2">>, <<"null">>, <<"1">>, <<Lit("a")>>,
   <<"[", "1", "]">>, <<"{">>, <<"{", Lit("a"), "}">>, <<"{", Lit("a"), ":", "1">>,
   <<"{", Lit("a"), ":", "1", ",", "}">>, <<"{", "1", ":", "1", "}">>,
   <<"{", Lit("a"), ":", "1", "}", "}">>}

ArgStrings ==
  {Blank(lead) \o body \o Blank(trail) :
     lead \in BOOLEAN, trail \in BOOLEAN, body \in ObjectTexts \cup NotObjectTexts}

NormInit ==
  /\ maxIterations = 0
  /\ pc = "Normalizer"
  /\ trace = << >>
  /\ pending = << >>
  /\ iterations = 0
  /\ err = NoError
  /\ output = << >>
  /\ scratchpad = << >>
  /\ plans = << >>
  /\ dispatches = << >>
  /\ invocations = << >>
  /\ NoServer
  /\ NoCall
  /\ NoLogin
  /\ unit = Nil
  /\ raw \in ArgStrings
  /\ normalized = << >>
  /\ parsed = Nil

\* The model's response carries one tool call with the Arguments text raw:
\* ParseOutput normalizes it into the action's input.
NormalizeArguments ==
  /\ pc = "Normalizer"
  /\ normalized = << >>
  /\ normalized' = <<normalizeToolInput(raw)>>
  /\ parsed' = Ptr(ParseOutput(Ptr([Choices |->
                     <<Choice(<< >>, <<ToolCall(<<"c1">>, <<"calendar">>, raw)>>, Nil)>>])))
  /\ UNCHANGED raw
  /\ UNCHANGED <<turnVars, serverVars, callVars, loginVars, unit>>

\* The normalizer is run on its own result.
NormalizeAgain ==
  /\ pc = "Normalizer"
  /\ Len(normalized) = 1
  /\ normalized' = Append(normalized, normalizeToolInput(normalized[1]))
  /\ UNCHANGED <<raw, parsed>>
  /\ UNCHANGED <<turnVars, serverVars, callVars, loginVars, unit>>

NormNext == NormalizeArguments \/ NormalizeAgain

NormSpec == NormInit /\ [][NormNext]_vars

\* ------------------------------------------------ one planning call on its own
\* The tools an agent can be built with: one without a schema of its own, one
\* whose Parameters() returns a schema, one whose Parameters() returns nil.
CalendarParameters ==
  [properties |-> ("summary" :> [type |-> "string"]), required |-> <<"summary">>,
   type |-> "object"]

CallTools ==
  {Tool(<<"calculator">>, <<"evaluates">>, FALSE, Nil),
   Tool(<<"calendar">>, <<"lists events">>, TRUE, Ptr(CalendarParameters)),
   Tool(<<"weather">>, <<"forecasts">>, TRUE, Nil)}

Registries == UNION {[1..n -> CallTools] : n \in 0..MaxTools}

\* The steps a prompt's scratchpad is built from: two actions of one response
\* and the action of a legacy function call.
CallSteps ==
  {AgentStep(ToolCallAction(RespTwoCalls.Choices[1], RespTwoCalls.Choices[1].ToolCalls[1]),
             <<"4">>),
   AgentStep(ToolCallAction(RespWeather.Choices[1], RespWeather.Choices[1].ToolCalls[1]),
             <<"boom">>),
   AgentStep(FuncCallAction(RespLegacy.Choices[1]), <<"4">>)}

\* The messages before the scratchpad: the system text and the input, with or
\* without earlier turns, among them a legacy function result.
PromptHeads ==
  {<<SystemChatMessage(<<"sys">>), HumanChatMessage(<<"q">>)>>,
   <<SystemChatMessage(<<"sys">>), HumanChatMessage(<<"q0">>),
     AIChatMessage(<<"a0">>, << >>), HumanChatMessage(<<"q">>)>>,
   <<SystemChatMessage(<<"sys">>), FunctionChatMessage(<<"calculator">>, <<"4">>),
     AIChatMessage(<< >>, << >>), HumanChatMessage(<< >>)>>}

Prompts ==
  {head \o constructScratchPad(steps) :
     head \in PromptHeads,
     steps \in UNION {[1..n -> CallSteps] : n \in 0..MaxPromptSteps}}

\* The responses to one call: up to two structured tool calls, with or without
\* a legacy function call of another name, with or without text; or no choice.
CallResponses ==
  {[Choices |-> <<Choice(content, SubSeq(RespTwoCalls.Choices[1].ToolCalls, 1, n), legacy)>>] :
     content \in {<< >>, <<"hm">>},
     n \in 0..2,
     legacy \in {Nil, Ptr(FunctionCall(<<"weather">>, ArgFreeText))}}
    \cup {RespNoChoices}

CallInit ==
  /\ maxIterations = 0
  /\ pc = "Call"
  /\ trace = << >>
  /\ pending = << >>
  /\ iterations = 0
  /\ err = NoError
  /\ output = << >>
  /\ scratchpad = << >>
  /\ plans = << >>
  /\ dispatches = << >>
  /\ invocations = << >>
  /\ NoServer
  /\ NoNormalizer
  /\ registry \in Registries
  /\ prompt \in Prompts
  /\ request = Nil
  /\ reply = Nil
  /\ NoLogin
  /\ unit = Nil

\* Plan converts the prompt's messages, computes the function definitions
\* and calls LLM.GenerateContent with both.
GenerateContent ==
  /\ pc = "Call"
  /\ request = Nil
  /\ request' = Ptr([messages |-> McList(prompt), functions |-> functions(registry)])
  /\ UNCHANGED <<registry, prompt, reply>>
  /\ UNCHANGED <<turnVars, serverVars, normVars, loginVars, unit>>

\* The model answers and Plan returns what ParseOutput makes of the answer.
ParseResponse(resp) ==
  /\ pc = "Call"
  /\ request # Nil
  /\ reply = Nil
  /\ reply' = Ptr([response |-> resp, returned |-> ParseOutput(Ptr(resp))])
  /\ UNCHANGED <<registry, prompt, request>>
  /\ UNCHANGED <<turnVars, serverVars, normVars, loginVars, unit>>

\* The agent's tool list is replaced before its next planning call.
SetTools(tools) ==
  /\ pc = "Call"
  /\ reply # Nil
  /\ registry' = tools
  /\ request' = Nil
  /\ reply' = Nil
  /\ UNCHANGED prompt
  /\ UNCHANGED <<turnVars, serverVars, normVars, loginVars, unit>>

CallNext ==
  \/ GenerateContent
  \/ \E resp \in CallResponses : ParseResponse(resp)
  \/ \E tools \in Registries : SetTools(tools)

CallSpec == CallInit /\ [][CallNext]_vars

\* ================================================================== claims
\* What the model was asked in planning call p: the first choice of the
\* response, when the prompt was formatted and the model call returned one.
Answered(p) ==
  /\ p.formatOK
  /\ p.gen.err = ""
  /\ p.gen.result # Nil
  /\ Len(Deref(p.gen.result).Choices) > 0

FirstChoice(p) == Deref(p.gen.result).Choices[1]

\* The model requested exactly one tool: one structured call, or a legacy call.
RequestsOneTool(p) ==
  /\ Answered(p)
  /\ \/ Len(FirstChoice(p).ToolCalls) = 1
     \/ Len(FirstChoice(p).ToolCalls) = 0 /\ FirstChoice(p).FuncCall # Nil

\* The model requested nothing and said content.
SaysOnlyText(p) ==
  /\ Answered(p)
  /\ Len(FirstChoice(p).ToolCalls) = 0
  /\ FirstChoice(p).FuncCall = Nil

\* ---------------------------------------------------------------------- C1
\* C1 as stated: with cap n a turn makes at most n+1 planning calls, and a
\* turn that is over ended in Finished or in Failed with MaxIterationsExceeded.
C1_Original ==
  /\ Len(plans) <= maxIterations + 1
  /\ pc \in Terminal =>
       \/ pc = "Finished"
       \/ pc = "Failed" /\ err.kind = "MaxIterationsExceeded"

\* The endings a turn has: Finished, Failed with MaxIterationsExceeded or with
\* the planner's error, or the panic of Plan on a response without choices.
C1_Endings ==
  /\ Len(plans) <= maxIterations + 1
  /\ pc = "Failed" => err.kind \in {"MaxIterationsExceeded", "PlannerError"}
  /\ pc = "Failed" /\ err.kind = "MaxIterationsExceeded" => iterations = maxIterations + 1
  /\ pc = "Failed" /\ err.kind = "PlannerError" => plans[Len(plans)].returned.err = err.msg
  /\ pc = "Panicked" =>
       LET p == plans[Len(plans)] IN
       p.gen.result # Nil /\ Len(Deref(p.gen.result).Choices) = 0
  /\ pc # "Failed" => err = NoError

\* The largest number of tool calls a response of the model carries.
LargestBatch ==
  CHOOSE n \in 1..8 :
    /\ \A r \in Responses : \A k \in DOMAIN r.Choices : Len(r.Choices[k].ToolCalls) <= n
    /\ \E r \in Responses : \E k \in DOMAIN r.Choices : Len(r.Choices[k].ToolCalls) = n

\* The work a turn has done: its planning calls and its dispatched actions.
Work == Len(plans) + Len(trace)

\* C1 amended: with cap n >= 0, whatever the model and the tools return, a
\* turn makes at most n+1 planning calls and always terminates, in Finished,
\* in Failed with MaxIterationsExceeded, in Failed with the planner's error,
\* or in the panic of Plan. Termination is stated by its variant: every step
\* of the turn is one more planning call or one more dispatched action, both
\* are bounded by the cap, and a turn that is not over can always take a
\* step (which, the model and the tools returning, it does).
C1_Amended ==
  /\ []C1_Endings
  /\ [][Work' = Work + 1]_vars
  /\ [](Len(trace) <= LargestBatch * (maxIterations + 1))
  /\ [](pc \notin Terminal => ENABLED Next)
  /\ [](pc \in Terminal => ~ENABLED Next)

C1_Witness ==
  /\ maxIterations >= 2
  /\ pc = "Failed"
  /\ err.kind = "MaxIterationsExceeded"
  /\ Len(plans) = maxIterations + 1

\* ---------------------------------------------------------------------- C2
\* Every planning call so far requested one tool and every dispatch so far
\* was a tool invocation that returned an error.
AlwaysFailingRun ==
  /\ \A i \in DOMAIN plans : RequestsOneTool(plans[i])
  /\ \A j \in DOMAIN dispatches : dispatches[j] = "error"

\* C2 as stated: with maxIterations = 3 such a turn ends after exactly 4
\* planning calls and exactly 3 tool dispatches with MaxIterationsExceeded.
C2_Original ==
  (maxIterations = 3 /\ AlwaysFailingRun /\ pc \in Terminal) =>
     /\ Len(plans) = 4
     /\ Len(dispatches) = 3
     /\ pc = "Failed"
     /\ err.kind = "MaxIterationsExceeded"

\* C2 amended: with maxIterations = 3, a turn in which every planning call
\* requests one tool and the tool fails every time ends after exactly 4
\* planning calls and exactly 4 tool dispatches (the cap is checked after
\* the batch is dispatched) with MaxIterationsExceeded, never a PlannerError.
C2_Amended ==
  (maxIterations = 3 /\ AlwaysFailingRun) =>
     /\ Len(plans) <= 4
     /\ Len(invocations) = Len(dispatches)
     /\ err.kind # "PlannerError"
     /\ pc \in Terminal =>
          /\ Len(plans) = 4
          /\ Len(dispatches) = 4
          /\ pc = "Failed"
          /\ err.kind = "MaxIterationsExceeded"

C2_Witness ==
  /\ maxIterations = 3
  /\ AlwaysFailingRun
  /\ pc = "Failed"
  /\ Len(dispatches) = 4

\* ---------------------------------------------------------------------- C3
\* The step taken is the dispatch of an action whose tool returned an error.
ErrorDispatched ==
  /\ Len(dispatches') = Len(dispatches) + 1
  /\ dispatches'[Len(dispatches')] = "error"

\* The step appended is the dispatched action with the error's message.
ErrorObserved ==
  /\ Len(trace') = Len(trace) + 1
  /\ SubSeq(trace', 1, Len(trace)) = trace
  /\ trace'[Len(trace')].Action = Head(pending)
  /\ \E ret \in ToolReturns :
       ret.err # << >> /\ trace'[Len(trace')].Observation = ret.err

\* C3 as stated: after a tool error the step is appended and the loop is at
\* the next action or the next planning call; the turn has not failed.
C3_Original ==
  [][ErrorDispatched =>
       /\ ErrorObserved
       /\ pc' \in {"ToolDispatch", "Planning"}
       /\ err' = NoError]_vars

\* C3 amended: a tool error does not fail the turn by itself: its message is
\* the observation of the step appended, and the loop goes on to the next
\* action of the batch or, after the last one, to the cap check, which leads
\* to the next planning call or to Failed with MaxIterationsExceeded.
C3_Amended ==
  [][ErrorDispatched =>
       /\ ErrorObserved
       /\ pending' = Tail(pending)
       /\ IF pending' # << >>
          THEN pc' = "ToolDispatch" /\ err' = NoError
          ELSE IF iterations + 1 <= maxIterations
          THEN pc' = "Planning" /\ err' = NoError
          ELSE pc' = "Failed" /\ err'.kind = "MaxIterationsExceeded"]_vars

C3_Witness ==
  /\ pc = "Planning"
  /\ Len(trace) = 2
  /\ dispatches = <<"error", "error">>
  /\ trace[2].Observation = <<"boom">>
  /\ Len(plans) = 1

\* ---------------------------------------------------------------------- C4
\* The action about to be dispatched names a tool the registry does not hold.
UnknownToolNext == pc = "ToolDispatch" /\ Head(pending).Tool \notin ToolNames

\* No tool is invoked and the step says the tool does not exist.
UnknownToolObserved ==
  /\ invocations' = invocations
  /\ trace' = Append(trace,
                     AgentStep(Head(pending),
                               <<"tool '">> \o Head(pending).Tool
                                  \o <<"' does not exist">>))

\* Planning call i requested an unknown tool and the next call returned a finish.
UnknownThenFinish(i) ==
  /\ i + 1 \in DOMAIN plans
  /\ \E k \in DOMAIN plans[i].returned.actions :
       plans[i].returned.actions[k].Tool \notin ToolNames
  /\ plans[i + 1].returned.finish # Nil

\* C4 as stated: the step is appended without a tool invocation and the turn
\* continues.
C4_Original ==
  [][UnknownToolNext =>
       /\ UnknownToolObserved
       /\ pc' \in {"ToolDispatch", "Planning"}
       /\ err' = NoError]_vars

\* C4 amended: for an action naming an unregistered tool no tool is invoked and
\* a step with the observation "tool '<name>' does not exist" is appended; the
\* turn continues with the next action or, after the batch, with the next
\* planning call unless the cap is exceeded; and when the next planning call
\* returns a finish the turn succeeds.
C4_Amended ==
  /\ [][UnknownToolNext =>
          /\ UnknownToolObserved
          /\ pending' = Tail(pending)
          /\ IF pending' # << >>
             THEN pc' = "ToolDispatch" /\ err' = NoError
             ELSE IF iterations + 1 <= maxIterations
             THEN pc' = "Planning" /\ err' = NoError
             ELSE pc' = "Failed" /\ err'.kind = "MaxIterationsExceeded"]_vars
  /\ [](\A i \in DOMAIN plans :
          UnknownThenFinish(i) =>
             /\ pc = "Finished"
             /\ err = NoError
             /\ output = Deref(plans[i + 1].returned.finish).output)

C4_Witness ==
  /\ UnknownThenFinish(1)
  /\ pc = "Finished"
  /\ invocations = << >>
  /\ trace[1].Observation = <<"tool '", "weather", "' does not exist">>

\* ---------------------------------------------------------------------- C5
\* The tool calls of the AI messages of msgs, in order.
RECURSIVE CallsOf(_)
CallsOf(msgs) ==
  IF msgs = << >> THEN << >>
  ELSE (IF Head(msgs).type = "ai" THEN Head(msgs).ToolCalls ELSE << >>)
         \o CallsOf(Tail(msgs))

\* The tool-result messages of msgs, in order.
ResultsOf(msgs) == SelectSeq(msgs, LAMBDA m : m.type = "tool")

\* One tool call and one tool result per step, in step order, each carrying
\* the step's call id; each AI message is followed by exactly as many results
\* as it has calls, with the same ids in the same order, and then by the next
\* AI message or the end; no steps give no messages.
C5_Pairing ==
  /\ Len(CallsOf(scratchpad)) = Len(trace)
  /\ Len(ResultsOf(scratchpad)) = Len(trace)
  /\ \A i \in DOMAIN trace :
       /\ CallsOf(scratchpad)[i].ID = trace[i].Action.ToolID
       /\ CallsOf(scratchpad)[i].Name = trace[i].Action.Tool
       /\ CallsOf(scratchpad)[i].Arguments = trace[i].Action.ToolInput
       /\ ResultsOf(scratchpad)[i].ID = trace[i].Action.ToolID
       /\ ResultsOf(scratchpad)[i].Content = trace[i].Observation
  /\ scratchpad # << >> => scratchpad[1].type = "ai"
  /\ \A k \in DOMAIN scratchpad :
       scratchpad[k].type = "ai" =>
         LET n == Len(scratchpad[k].ToolCalls) IN
         /\ n >= 1
         /\ k + n <= Len(scratchpad)
         /\ \A j \in 1..n :
              /\ scratchpad[k + j].type = "tool"
              /\ scratchpad[k + j].ID = scratchpad[k].ToolCalls[j].ID
         /\ k + n < Len(scratchpad) => scratchpad[k + n + 1].type = "ai"
  /\ trace = << >> => scratchpad = << >>

\* No call id is carried by two tool calls of the scratchpad.
CallIdsOnce ==
  \A i, j \in DOMAIN CallsOf(scratchpad) :
    i # j => CallsOf(scratchpad)[i].ID # CallsOf(scratchpad)[j].ID

\* C5 as stated: the pairing holds for every step sequence and every tool
\* call id appears exactly once.
C5_Original == C5_Pairing /\ CallIdsOnce

\* C5 amended: the pairing holds for every step sequence, and a call id
\* appears in as many tool calls as steps carry it: exactly once when the
\* call ids of the steps are pairwise distinct.
C5_Amended ==
  /\ C5_Pairing
  /\ \A i \in DOMAIN trace :
       Cardinality({j \in DOMAIN CallsOf(scratchpad) :
                      CallsOf(scratchpad)[j].ID = trace[i].Action.ToolID})
         = Cardinality({j \in DOMAIN trace :
                          trace[j].Action.ToolID = trace[i].Action.ToolID})
  /\ (\A i, j \in DOMAIN trace : i # j => trace[i].Action.ToolID # trace[j].Action.ToolID)
       => CallIdsOnce

\* A batch of two steps merged into one AI message, after a batch of one.
C5_Witness ==
  /\ Len(trace) = 3
  /\ Len(scratchpad) = 5
  /\ Len(scratchpad[3].ToolCalls) = 2
  /\ trace[2].Action.ToolID # trace[3].Action.ToolID
  /\ trace[2].Observation # trace[3].Observation

\* ---------------------------------------------------------------------- C6
\* A Plan call that returned without error returned a finish or a non-empty
\* list of actions, and not both.
C6_ExactlyOne ==
  \A i \in DOMAIN plans :
    (~plans[i].returned.panicked /\ plans[i].returned.err = "") =>
      (plans[i].returned.finish # Nil) # (plans[i].returned.actions # << >>)

\* The response has no tool call, no legacy function call and no text.
SaysNothing(p) == SaysOnlyText(p) /\ FirstChoice(p).Content = << >>

\* C6 as stated: exactly one of the two, and an empty response is a Planner
\* error.
C6_Original ==
  /\ C6_ExactlyOne
  /\ \A i \in DOMAIN plans : SaysNothing(plans[i]) => plans[i].returned.err # ""

\* C6 amended: exactly one of the two, and a response with no tool call, no
\* legacy function call and empty text is returned as a finish whose output
\* is the empty string, without error.
C6_Amended ==
  /\ C6_ExactlyOne
  /\ \A i \in DOMAIN plans :
       SaysNothing(plans[i]) =>
         /\ plans[i].returned.err = ""
         /\ plans[i].returned.actions = << >>
         /\ plans[i].returned.finish # Nil
         /\ Deref(plans[i].returned.finish).output = << >>

C6_Witness ==
  /\ Len(plans) = 2
  /\ Len(plans[1].returned.actions) = 2
  /\ SaysNothing(plans[2])
  /\ pc = "Finished"
  /\ output = << >>

\* ---------------------------------------------------------------------- C7
\* The model call returned a response without choices.
NoChoices(p) ==
  p.formatOK /\ p.gen.result # Nil /\ Len(Deref(p.gen.result).Choices) = 0

\* C7: on a response with zero choices Plan returns a Planner error, returns
\* neither actions nor a finish and does not crash, and the error ends the turn.
C7_NoChoicesIsError ==
  \A i \in DOMAIN plans :
    NoChoices(plans[i]) =>
      /\ ~plans[i].returned.panicked
      /\ plans[i].returned.err # ""
      /\ plans[i].returned.actions = << >>
      /\ plans[i].returned.finish = Nil
      /\ pc = "Failed"
      /\ err.kind = "PlannerError"

\* ---------------------------------------------------------------------- C8
\* C8: a Planner error (the prompt's, the model call's or the parser's) at a
\* planning call moves the turn to Failed with that very error; that call is
\* the turn's last, nothing is dispatched after it, and the steps it was
\* given are the steps the turn ends with.
C8_PlannerErrorIsFatal ==
  \A i \in DOMAIN plans :
    LET p == plans[i] IN
    /\ (p.formatOK /\ ~NoChoices(p) /\ p.gen.err # "") => p.returned.err = p.gen.err
    /\ (p.formatOK /\ p.gen.err = "" /\ p.gen.result = Nil) => p.returned.err # ""
    /\ ~p.formatOK => p.returned.err # ""
    /\ p.returned.err # "" =>
         /\ i = Len(plans)
         /\ pc = "Failed"
         /\ err = [kind |-> "PlannerError", msg |-> p.returned.err]
         /\ trace = p.given
         /\ Len(dispatches) = Len(p.given)
         /\ pending = << >>

C8_Witness ==
  /\ pc = "Failed"
  /\ err = [kind |-> "PlannerError", msg |-> "stream interrupted"]
  /\ Len(plans) = 2
  /\ Len(trace) = 2

\* ---------------------------------------------------------------------- C9
\* The first planning call requested one tool and the second returned a finish.
OneToolThenFinish ==
  /\ Len(plans) >= 2
  /\ RequestsOneTool(plans[1])
  /\ SaysOnlyText(plans[2])

\* C9: such a turn returns the finish's text, a trace of exactly the one
\* dispatched step and no error, and the second planning call was given a
\* scratchpad of the step's tool call followed by its observation.
C9_OneToolThenFinish ==
  OneToolThenFinish =>
    /\ pc = "Finished"
    /\ err = NoError
    /\ output = FirstChoice(plans[2]).Content
    /\ Len(plans) = 2
    /\ Len(trace) = 1
    /\ trace[1].Action = plans[1].returned.actions[1]
    /\ plans[2].given = trace
    /\ Len(plans[2].scratchpad) = 2
    /\ plans[2].scratchpad[1].type = "ai"
    /\ Len(plans[2].scratchpad[1].ToolCalls) = 1
    /\ plans[2].scratchpad[1].ToolCalls[1].Name = trace[1].Action.Tool
    /\ plans[2].scratchpad[1].ToolCalls[1].Arguments = trace[1].Action.ToolInput
    /\ plans[2].scratchpad[1].ToolCalls[1].ID = trace[1].Action.ToolID
    /\ plans[2].scratchpad[2].type = "tool"
    /\ plans[2].scratchpad[2].ID = trace[1].Action.ToolID
    /\ plans[2].scratchpad[2].Content = trace[1].Observation

\* calculator is asked "2+2", returns "4", and the model finishes with "4".
C9_Witness ==
  /\ OneToolThenFinish
  /\ trace[1].Action.Tool = <<"calculator">>
  /\ trace[1].Action.ToolInput = <<"2+2">>
  /\ trace[1].Observation = <<"4">>
  /\ output = <<"4">>

\* --------------------------------------------------------------------- C10
\* C10: when the first response has no tool call and a non-empty text t, the
\* turn returns exactly t after one planning call and no tool dispatch.
C10_TextIsOutput ==
  (Len(plans) >= 1 /\ SaysOnlyText(plans[1]) /\ FirstChoice(plans[1]).Content # << >>) =>
    /\ pc = "Finished"
    /\ err = NoError
    /\ output = FirstChoice(plans[1]).Content
    /\ Len(plans) = 1
    /\ dispatches = << >>
    /\ invocations = << >>
    /\ trace = << >>

C10_Witness ==
  /\ Len(plans) = 1
  /\ SaysOnlyText(plans[1])
  /\ output = <<"4">>
  /\ pc = "Finished"

\* --------------------------------------------------------------------- C11
\* The steps of the turn that planning call i found, and the batch it returned.
StepsBefore(i) == Len(plans[i].given)

BatchOf(i) == plans[i].returned.actions

\* The batch of planning call i is dispatched in the planner's order: its
\* k-th action is the action of the k-th step after the steps the call found.
InPlannerOrder(i) ==
  /\ plans[i].given = SubSeq(trace, 1, StepsBefore(i))
  /\ \A k \in 1..Len(BatchOf(i)) :
       StepsBefore(i) + k <= Len(trace) => trace[StepsBefore(i) + k].Action = BatchOf(i)[k]

\* The planning call after call i found a step for every action of batch i.
BatchCompleteBeforeNextPlan(i) ==
  i < Len(plans) => StepsBefore(i + 1) = StepsBefore(i) + Len(BatchOf(i))

\* What is left of the latest batch is its tail, in order.
PendingIsRestOfBatch ==
  plans # << >> =>
    LET i == Len(plans) IN
    /\ Len(trace) + Len(pending) = StepsBefore(i) + Len(BatchOf(i))
    /\ pending = SubSeq(BatchOf(i), Len(BatchOf(i)) - Len(pending) + 1, Len(BatchOf(i)))

\* One event at a time: a step of the turn is one planning call or one
\* dispatch (at most one tool invocation, returned when the step is over), and
\* a planning call is made only when no action of the batch is left.
OneEventAtATime ==
  /\ Len(plans') + Len(trace') = Len(plans) + Len(trace) + 1
  /\ Len(invocations') <= Len(invocations) + 1
  /\ Len(invocations') > Len(invocations) => Len(trace') = Len(trace) + 1
  /\ Len(plans') > Len(plans) => pending = << >> /\ trace' = trace

\* C11: within a turn the actions of a batch are dispatched in the order the
\* planner listed them, one tool invocation at a time, and the next planning
\* call is made only after every action of the batch has produced its step.
C11_StrictlySequential ==
  /\ [](\A i \in 1..Len(plans) : InPlannerOrder(i) /\ BatchCompleteBeforeNextPlan(i))
  /\ []PendingIsRestOfBatch
  /\ [](pc = "Planning" => pending = << >>)
  /\ [][OneEventAtATime]_vars

\* A batch of two actions was dispatched and the planner was called again.
C11_Witness ==
  /\ Len(plans) >= 2
  /\ Len(BatchOf(1)) = 2
  /\ BatchOf(1)[1] # BatchOf(1)[2]
  /\ StepsBefore(2) = 2
  /\ Len(invocations) = 2

\* --------------------------------------------------------------------- C12
\* C12: once the browser of a connection is gone while a model call or a tool
\* invocation of its turn is in progress, that turn starts no further tool
\* invocation and no further planning call.
C12_DisconnectAbortsTurn ==
  [][\A c \in Conns :
       (client[c] = "gone" /\ Running(c)) =>
         /\ turn'[c].plans <= turn[c].plans
         /\ turn'[c].tools <= turn[c].tools]_vars

\* --------------------------------------------------------------------- C13
\* The request of connection c passed the middleware with an OAuth token in
\* its cookie: its context carries the token source the middleware resolved.
PassedWithToken(c) ==
  /\ handler[c].pc \in {"ReadMessage", "Call"}
  /\ handler[c].r.OauthTokenSource # Nil

\* C13: every tool invoked in a turn of such a connection receives a context
\* that carries the token source the middleware resolved for the request.
C13_ToolsReceiveTokenSource ==
  \A c \in Conns :
    (PassedWithToken(c) /\ turn[c].received # Nil) =>
      Deref(turn[c].received).OauthTokenSource = handler[c].r.OauthTokenSource

\* --------------------------------------------------------------------- C14
\* C14: while the turn of one connection runs, the conversation history it
\* read is not written by the turn of another connection: a step that leaves
\* the running turn where it is leaves the history as it is. (The step list
\* and the iteration count are the turn's own record.)
C14_NoSharedTurnState ==
  [][\A c \in Conns : (Running(c) /\ turn'[c] = turn[c]) => memory' = memory]_vars

\* --------------------------------------------------------------------- C15
\* The turns between their read of the conversation buffer and their append.
TurnsOnMemory == {c \in Conns : Running(c)}

\* C15: at no time are two turns between their read of the history and their
\* append against the one conversation buffer.
C15_OneTurnPerMemory == Cardinality(TurnsOnMemory) <= 1

\* --------------------------------------------------------------------- C16
\* The number of actions the planning calls ps returned.
RECURSIVE ActionsReturned(_)
ActionsReturned(ps) ==
  IF ps = << >> THEN 0
  ELSE Len(Head(ps).returned.actions) + ActionsReturned(Tail(ps))

\* C16: every action the planner returned is dispatched at most once: each
\* step of the turn is the dispatch of its own action occurrence, every action
\* returned so far is either dispatched or still pending, and the tool
\* invocations never outnumber the actions returned, however the turn ends.
C16_AtMostOnce ==
  /\ Len(trace) = Len(dispatches)
  /\ Len(trace) + Len(pending) = ActionsReturned(plans)
  /\ \A i \in 1..Len(plans) :
       /\ InPlannerOrder(i)
       /\ \A j \in 1..Len(plans) :
            i < j => StepsBefore(i) + Len(BatchOf(i)) <= StepsBefore(j)
  /\ Len(invocations) <= Len(trace)
  /\ Len(invocations) <= ActionsReturned(plans)

\* Three actions were returned; one named no tool, one tool failed, and the
\* turn is over with two invocations.
C16_Witness ==
  /\ pc \in Terminal
  /\ ActionsReturned(plans) = 3
  /\ Len(invocations) = 2
  /\ \E k \in 1..Len(dispatches) : dispatches[k] = "error"
  /\ \E k \in 1..Len(dispatches) : dispatches[k] = "notfound"

\* --------------------------------------------------------------------- C17
\* The keys of an object text, in the order written.
KeysOf(s) == LET m == Members(s) IN [i \in 1..((Len(m) + 1) \div 4) |-> m[4 * i - 3]]

KeyRank(k) == CHOOSE r \in 1..Len(KeyOrder) : KeyOrder[r] = k

\* A JSON object in canonical form: no blanks, each key once, keys in byte order.
Canonical(s) ==
  /\ UnmarshalOK(s)
  /\ s[1] = "{"
  /\ \A i \in 1..Len(s) : s[i] # " "
  /\ \A i, j \in 1..Len(KeysOf(s)) : i < j => KeyRank(KeysOf(s)[i]) < KeyRank(KeysOf(s)[j])

HasArg1(s) == \E i \in 1..Len(KeysOf(s)) : KeysOf(s)[i] = Lit("__arg1")

\* C17: for a canonical JSON object s without an __arg1 key,
\* normalize(normalize(s)) = normalize(s).
C17_Idempotent ==
  (Canonical(raw) /\ ~HasArg1(raw) /\ Len(normalized) = 2) => normalized[2] = normalized[1]

\* A canonical object of two members was normalized twice and came back as it was.
C17_Witness ==
  /\ Canonical(raw)
  /\ ~HasArg1(raw)
  /\ Len(KeysOf(raw)) = 2
  /\ Len(normalized) = 2
  /\ normalized[2] = raw

\* --------------------------------------------------------------------- C18
\* The text, trimmed, is a JSON object.
ParsesAsObject(s) ==
  /\ TrimSpace(s) # << >>
  /\ Head(TrimSpace(s)) = "{"
  /\ UnmarshalOK(TrimSpace(s))

\* C18: the normalizer returns a string for every Arguments text: the empty
\* string when the text is empty after trimming, the trimmed text when it is
\* no JSON object; and the planning call that carries the text returns its
\* action, with the normalized text as input, and no error.
C18_NeverFails ==
  normalized # << >> =>
    /\ TrimSpace(raw) = << >> => normalized[1] = << >>
    /\ ~ParsesAsObject(raw) => normalized[1] = TrimSpace(raw)
    /\ parsed # Nil
    /\ Deref(parsed).err = ""
    /\ ~Deref(parsed).panicked
    /\ Deref(parsed).finish = Nil
    /\ Len(Deref(parsed).actions) = 1
    /\ Deref(parsed).actions[1].ToolInput = normalized[1]

\* A truncated object between blanks went through as its trimmed text.
C18_Witness ==
  /\ raw = <<" ", "{", Lit("a"), ":", "1", " ">>
  /\ normalized # << >>
  /\ normalized[1] = <<"{", Lit("a"), ":", "1">>
  /\ Deref(parsed).actions[1].ToolInput = <<"{", Lit("a"), ":", "1">>

\* --------------------------------------------------------------------- C19
\* C19: all the actions a planning call returned from one model response
\* carry the same log text.
C19_OneLogPerResponse ==
  \A i \in 1..Len(plans) :
    \A k, l \in 1..Len(BatchOf(i)) : BatchOf(i)[k].Log = BatchOf(i)[l].Log

\* --------------------------------------------------------------------- C20
\* The batch of step k by the rule of the claim: a new batch starts at the
\* first step and at every step whose log differs from the log before it.
BatchNo(steps, k) ==
  Cardinality({i \in 1..k : i = 1 \/ steps[i].Action.Log # steps[i - 1].Action.Log})

StepsOfBatch(steps, n) == {k \in 1..Len(steps) : BatchNo(steps, k) = n}

\* Where the n-th AI message of a scratchpad is.
AIPositions(pad) == {p \in 1..Len(pad) : pad[p].type = "ai"}

NthAI(pad, n) ==
  CHOOSE p \in AIPositions(pad) : Cardinality({q \in AIPositions(pad) : q <= p}) = n

\* The scratchpad has one AI message per batch, which carries the log of the
\* batch and the calls of exactly its steps in order, and is followed by one
\* run of as many tool results, each of its step.
GroupedByLog(steps, pad) ==
  /\ Cardinality(AIPositions(pad)) = IF steps = << >> THEN 0 ELSE BatchNo(steps, Len(steps))
  /\ Len(pad) = Len(steps) + Cardinality(AIPositions(pad))
  /\ \A k \in 1..Len(steps) :
       LET n     == BatchNo(steps, k)
           p     == NthAI(pad, n)
           first == CHOOSE j \in StepsOfBatch(steps, n) : \A l \in StepsOfBatch(steps, n) : j <= l
           size  == Cardinality(StepsOfBatch(steps, n))
           at    == k - first + 1
       IN  /\ pad[p].Content = steps[k].Action.Log
           /\ Len(pad[p].ToolCalls) = size
           /\ pad[p].ToolCalls[at] = StepToolCall(steps[k])
           /\ pad[p + at] = ToolChatMessage(steps[k].Action.ToolID, steps[k].Observation)
           /\ p + size < Len(pad) => pad[p + size + 1].type = "ai"

\* C20: two consecutive steps are in the same batch exactly when their action
\* logs are equal: the scratchpad is grouped by the rule above, so consecutive
\* steps with identical logs, the steps of two planning rounds included, share
\* one AI message and one run of tool results.
C20_GroupedByLog == GroupedByLog(trace, scratchpad)

\* Two calls with different ids and results but the same log text, as two
\* planning rounds produce them, are one AI message followed by two results;
\* the step after them, with another log, is a batch of its own.
C20_Witness ==
  /\ Len(trace) = 3
  /\ trace[1].Action.Log = trace[2].Action.Log
  /\ trace[1].Action.ToolID = <<"c1">>
  /\ trace[2].Action.ToolID = <<"c2">>
  /\ trace[1].Observation # trace[2].Observation
  /\ trace[3].Action.Log # trace[2].Action.Log
  /\ Len(scratchpad) = 5
  /\ scratchpad[1].type = "ai"
  /\ Len(scratchpad[1].ToolCalls) = 2
  /\ scratchpad[2].type = "tool" /\ scratchpad[3].type = "tool"
  /\ scratchpad[4].type = "ai"

\* --------------------------------------------------------------------- C21
\* The call ids of the actions of planning call i, in order.
BatchIds(i) == [k \in 1..Len(BatchOf(i)) |-> BatchOf(i)[k].ToolID]

\* The ids the model gave the tool calls of the response of planning call i.
ResponseIds(i) ==
  IF ~Answered(plans[i]) THEN << >>
  ELSE [k \in 1..Len(FirstChoice(plans[i]).ToolCalls) |->
          FirstChoice(plans[i]).ToolCalls[k].ID]

\* C21 as stated: the call ids are unique within each batch, and no id of
\* an earlier batch appears in a later batch of the turn.
C21_Original ==
  \A i, j \in 1..Len(plans) :
    \A k \in 1..Len(BatchOf(i)), l \in 1..Len(BatchOf(j)) :
      (i # j \/ k # l) => BatchIds(i)[k] # BatchIds(j)[l]

\* The ids the model gave in the turn's responses are pairwise different.
ModelIdsDiffer ==
  \A i, j \in 1..Len(plans) :
    \A k \in 1..Len(ResponseIds(i)), l \in 1..Len(ResponseIds(j)) :
      (i # j \/ k # l) => ResponseIds(i)[k] # ResponseIds(j)[l]

\* An action of a legacy function call.
LegacyBatch(i) ==
  /\ Answered(plans[i])
  /\ Len(FirstChoice(plans[i]).ToolCalls) = 0
  /\ FirstChoice(plans[i]).FuncCall # Nil

\* C21 amended: the planner copies call ids and makes none. The ids of a
\* batch of structured tool calls are the ids of the response's tool calls,
\* in order; the one action of a legacy function call has the empty id. So
\* the ids of a turn are unique exactly as far as the model's are, and every
\* legacy action of a turn shares the empty id.
C21_Amended ==
  /\ \A i \in 1..Len(plans) :
       /\ BatchOf(i) # << >> /\ ~LegacyBatch(i) => BatchIds(i) = ResponseIds(i)
       /\ LegacyBatch(i) => BatchIds(i) = << << >> >>
  /\ (ModelIdsDiffer /\ \A i \in 1..Len(plans) : ~LegacyBatch(i)) => C21_Original

\* A batch of two calls carries the model's two ids; the next round is a
\* legacy call, and so is the one after it: both have the empty id.
C21_Witness ==
  /\ Len(plans) >= 3
  /\ BatchIds(1) = << <<"c3">>, <<"c4">> >>
  /\ LegacyBatch(2) /\ LegacyBatch(3)
  /\ BatchIds(2) = BatchIds(3)

\* --------------------------------------------------------------------- C22
\* s is a prefix of t.
IsPrefix(s, t) == Len(s) <= Len(t) /\ s = SubSeq(t, 1, Len(s))

\* C22: the step list only grows by appending: every step of the turn leaves
\* the previous step list a prefix of the new one, a planning call with its
\* scratchpad construction leaves it as it was, and the list every earlier
\* planning call was given is a prefix of the current one.
C22_StepsOnlyAppended ==
  /\ [][IsPrefix(trace, trace')]_vars
  /\ [][Len(plans') > Len(plans) =>
          /\ trace' = trace
          /\ plans'[Len(plans')].given = trace
          /\ plans'[Len(plans')].scratchpad = constructScratchPad(trace)]_vars
  /\ [](\A i \in 1..Len(plans) : IsPrefix(plans[i].given, trace))

\* Three steps were appended one by one around two planning calls.
C22_Witness ==
  /\ Len(trace) = 3
  /\ Len(plans) >= 2
  /\ Len(plans[2].given) = 2
  /\ plans[2].scratchpad # << >>


\* --------------------------------------------------------------------- C23
\* The string form of a decoded scalar: a string's content, a number's digits.
StringForm(v) == IF v \in StrLits THEN Unquote(v) ELSE <<v>>

\* The object the Arguments text decodes to.
ParsedObject(s) == Unmarshal(TrimSpace(s)).kv

\* C23: for an Arguments text that parses as a JSON object, the normalizer
\* returns the string form of the value of __arg1, whatever its JSON type, when
\* __arg1 is the object's only key, and the re-serialized object in every other
\* case, an object with __arg1 and other keys included.
C23_OnlyKeyRule ==
  (normalized # << >> /\ ParsesAsObject(raw)) =>
    IF DOMAIN ParsedObject(raw) = {Lit("__arg1")}
    THEN normalized[1] = StringForm(ParsedObject(raw)[Lit("__arg1")])
    ELSE normalized[1] = Marshal(Unmarshal(TrimSpace(raw)))


\* --------------------------------------------------------------------- C24
\* The members of an object text, in the order written.
MembersOf(s) ==
  LET m == Members(s) IN [i \in 1..((Len(m) + 1) \div 4) |-> <<m[4 * i - 3], m[4 * i - 1]>>]

\* The text is a JSON object that names each key once and has no __arg1 key.
PlainObject(s) ==
  /\ ParsesAsObject(s)
  /\ ~HasArg1(TrimSpace(s))
  /\ \A i, j \in 1..Len(KeysOf(TrimSpace(s))) :
       KeysOf(TrimSpace(s))[i] = KeysOf(TrimSpace(s))[j] => i = j

\* The texts that denote the same object as s: its members in any order, with
\* or without blanks between the tokens and around the text.
Rewritings(s) ==
  LET ms == MembersOf(TrimSpace(s)) IN
  {Blank(lead) \o ObjectText([i \in 1..Len(ms) |-> ms[p[i]]], blank) \o Blank(trail) :
     p \in Permutations(1..Len(ms)), blank \in BOOLEAN, lead \in BOOLEAN, trail \in BOOLEAN}

\* The action ParseOutput makes of one tool call with the Arguments text s.
ActionOf(s) ==
  ParseOutput(Ptr([Choices |->
    <<Choice(<< >>, <<ToolCall(<<"c1">>, <<"calendar">>, s)>>, Nil)>>])).actions[1]

\* C24: two Arguments texts that denote the same JSON object without __arg1 and
\* differ only in key order or insignificant whitespace normalize to the same
\* string, and the actions made of them have the same tool input and log.
C24_SameObjectSameString ==
  (normalized # << >> /\ PlainObject(raw)) =>
    \A s \in Rewritings(raw) :
      /\ normalizeToolInput(s) = normalized[1]
      /\ ActionOf(s).ToolInput = Deref(parsed).actions[1].ToolInput
      /\ ActionOf(s).Log = Deref(parsed).actions[1].Log

\* An object of two members, written with blanks and its keys out of byte
\* order, was normalized to a text that differs from it, and a rewriting of it
\* exists that differs from both.
C24_Witness ==
  /\ normalized # << >>
  /\ PlainObject(raw)
  /\ Len(KeysOf(TrimSpace(raw))) = 2
  /\ KeyRank(KeysOf(TrimSpace(raw))[1]) > KeyRank(KeysOf(TrimSpace(raw))[2])
  /\ \E i \in 1..Len(raw) : raw[i] = " "
  /\ normalized[1] # TrimSpace(raw)
  /\ \E s \in Rewritings(raw) : s # raw /\ s # normalized[1]


\* --------------------------------------------------------------------- C25
\* The first choice of the response ParseOutput was given.
RepliedChoice == Deref(reply).response.Choices[1]

\* C25: ParseOutput classifies a response by strict precedence. With one or
\* more structured tool calls it returns one action per tool call, in the
\* order of the response and with that call's id and name, and no finish;
\* otherwise, with a legacy function call, exactly one action with the empty
\* id, and no finish; otherwise no action and the response text as the output
\* of the finish.
C25_StrictPrecedence ==
  (reply # Nil /\ Len(Deref(reply).response.Choices) > 0) =>
    LET returned == Deref(reply).returned IN
    /\ returned.err = ""
    /\ IF Len(RepliedChoice.ToolCalls) > 0
       THEN /\ returned.finish = Nil
            /\ Len(returned.actions) = Len(RepliedChoice.ToolCalls)
            /\ \A k \in 1..Len(returned.actions) :
                 /\ returned.actions[k].ToolID = RepliedChoice.ToolCalls[k].ID
                 /\ returned.actions[k].Tool = RepliedChoice.ToolCalls[k].Name
       ELSE IF RepliedChoice.FuncCall # Nil
       THEN /\ returned.finish = Nil
            /\ Len(returned.actions) = 1
            /\ returned.actions[1].ToolID = << >>
            /\ returned.actions[1].Tool = Deref(RepliedChoice.FuncCall).Name
       ELSE /\ returned.actions = << >>
            /\ returned.finish # Nil
            /\ Deref(returned.finish).output = RepliedChoice.Content

\* A response with two tool calls, a legacy function call and text was
\* classified by its tool calls.
C25_Witness ==
  /\ reply # Nil
  /\ Len(Deref(reply).response.Choices) > 0
  /\ Len(RepliedChoice.ToolCalls) = 2
  /\ RepliedChoice.FuncCall # Nil
  /\ RepliedChoice.Content # << >>
  /\ Len(Deref(reply).returned.actions) = 2
  /\ Deref(reply).returned.actions[2].ToolID = <<"c4">>


\* --------------------------------------------------------------------- C26
\* The schema with the single required string field __arg1.
IsDefaultSchema(params) ==
  /\ params.type = "object"
  /\ params.required = <<"__arg1">>
  /\ DOMAIN params.properties = {"__arg1"}
  /\ params.properties["__arg1"].type = "string"

\* C26: every planning call sends the model exactly one function definition
\* per tool of the agent's current tool list, in the list's order, with the
\* tool's name and description; the definition carries the tool's own
\* parameter schema when the tool provides a non-nil one and the default
\* schema with the single required string field __arg1 otherwise.
C26_OneDefinitionPerTool ==
  request # Nil =>
    LET sent == Deref(request).functions IN
    /\ Len(sent) = Len(registry)
    /\ \A i \in 1..Len(registry) :
         /\ sent[i].Name = registry[i].Name
         /\ sent[i].Description = registry[i].Description
         /\ IF registry[i].parameterized /\ registry[i].custom # Nil
            THEN sent[i].Parameters = Deref(registry[i].custom)
            ELSE IsDefaultSchema(sent[i].Parameters)

\* A call was made for a tool with a schema of its own followed by a tool
\* whose Parameters() returns nil.
C26_Witness ==
  /\ request # Nil
  /\ Len(registry) = 2
  /\ registry[1].custom # Nil
  /\ registry[2].parameterized
  /\ registry[2].custom = Nil
  /\ Deref(request).functions[1].Parameters = CalendarParameters
  /\ IsDefaultSchema(Deref(request).functions[2].Parameters)


\* --------------------------------------------------------------------- C27
\* The message carries text: one part, a text or a tool result with its text.
CarriesText(mc) ==
  /\ Len(mc.Parts) = 1
  /\ mc.Parts[1].kind \in {"text", "response"}

\* The message carries a non-empty list of tool calls and nothing else.
CarriesToolCalls(mc) ==
  /\ Len(mc.Parts) > 0
  /\ \A k \in 1..Len(mc.Parts) : mc.Parts[k].kind = "call"

\* C27: every message sent to the model in a planning call carries either text
\* or a non-empty list of tool calls, never both; an AI message of the prompt
\* that has tool calls is sent with its tool calls only, in their order; and
\* the messages sent are as many as the prompt's messages, each with the role
\* of the prompt's message at the same position.
C27_TextOrToolCalls ==
  request # Nil =>
    LET sent == Deref(request).messages IN
    /\ Len(sent) = Len(prompt)
    /\ \A i \in 1..Len(prompt) :
         /\ sent[i].Role = prompt[i].type
         /\ CarriesText(sent[i]) # CarriesToolCalls(sent[i])
         /\ IF prompt[i].type = "ai" /\ Len(prompt[i].ToolCalls) > 0
            THEN /\ CarriesToolCalls(sent[i])
                 /\ Len(sent[i].Parts) = Len(prompt[i].ToolCalls)
                 /\ \A k \in 1..Len(sent[i].Parts) :
                      /\ sent[i].Parts[k].ID = prompt[i].ToolCalls[k].ID
                      /\ sent[i].Parts[k].Name = prompt[i].ToolCalls[k].Name
                      /\ sent[i].Parts[k].Arguments = prompt[i].ToolCalls[k].Arguments
            ELSE /\ CarriesText(sent[i])
                 /\ IF sent[i].Parts[1].kind = "text"
                    THEN sent[i].Parts[1].Text = prompt[i].Content
                    ELSE sent[i].Parts[1].Content = prompt[i].Content

\* A prompt whose scratchpad holds an AI message with a log text and two tool
\* calls, followed by their results, was sent: the AI message went out as its
\* two calls.
C27_Witness ==
  /\ request # Nil
  /\ \E i \in 1..Len(prompt) :
       /\ prompt[i].type = "ai"
       /\ prompt[i].Content # << >>
       /\ Len(prompt[i].ToolCalls) = 2
       /\ Len(Deref(request).messages[i].Parts) = 2
       /\ i + 2 <= Len(prompt)
       /\ Deref(request).messages[i + 2].Parts[1].kind = "response"


\* --------------------------------------------------------------------- C28
\* The cookie is a JWT signed with the server's secret by an HMAC method that
\* has not expired.
VerifiedCookie(cookie) ==
  /\ cookie # Nil
  /\ Deref(cookie).alg = "HS256"
  /\ Deref(cookie).key = "hmacSecret"
  /\ ~Deref(cookie).expired

\* The wrapped handler of connection c was called.
HandlerCalled(c) == handler[c].pc \in {"ReadMessage", "Call", "returned"}

\* C28: the handler wrapped by authMiddleware is called only for a request
\* whose Auth cookie holds a JWT that verifies with the server's secret, is
\* HMAC-signed and has not expired; every other request is answered with a
\* redirect to /login and the handler is not called for it, then or later.
C28_OnlyVerifiedRequests ==
  /\ [][\A c \in Conns : \A cookie \in Cookies(c), upgraded \in BOOLEAN :
          Request(c, cookie, upgraded) =>
            /\ VerifiedCookie(cookie) => HandlerCalled(c)'
            /\ ~VerifiedCookie(cookie) =>
                 /\ handler'[c].pc = "redirected"
                 /\ authMiddleware(config.oauth, cookie, Background).redirect = <<"/login">>]_vars
  /\ [][\A c \in Conns : handler[c].pc = "redirected" => handler'[c].pc = "redirected"]_vars
  /\ [](\A c \in Conns : handler[c].pc = "redirected" => ~Running(c) /\ turn[c] = NoTurn)

\* One request was redirected while the handler of the other, which came with
\* a verified cookie, is inside an executor call.
C28_Witness ==
  /\ handler["a"].pc = "redirected"
  /\ handler["b"].pc = "Call"
  /\ Running("b")


\* --------------------------------------------------------------------- C29
\* The latest request to /login was a POST whose password field equals a
\* non-empty MASTER_PASSWORD.
RightPassword ==
  /\ Deref(login).method = "POST"
  /\ ~Deref(login).form.err
  /\ Deref(login).form.password # << >>
  /\ masterPassword # << >>
  /\ Deref(login).form.password[1] = masterPassword

\* The response sends the browser to the protected root.
RedirectsToRoot(w) == w.status = 303 /\ w.Location = <<"/">>

\* C29: the response of the login handler sets an Auth cookie, holding a token
\* signed with the server's secret, only for a POST whose password field
\* equals a non-empty MASTER_PASSWORD; for any other request, and when the
\* token could not be created, the response sets no cookie and does not
\* redirect to /, and a browser that held no session before is still sent
\* from / to /login afterwards.
C29_CookieOnlyForMasterPassword ==
  login # Nil =>
    LET w == Deref(login).w IN
    /\ w.SetCookie # Nil =>
         /\ RightPassword
         /\ Deref(login).signs
         /\ VerifiedCookie(w.SetCookie)
    /\ (~RightPassword \/ ~Deref(login).signs) =>
         /\ w.SetCookie = Nil
         /\ ~RedirectsToRoot(w)
    /\ (jar = Nil /\ root # "none") => root = "redirected"
    /\ (RightPassword /\ Deref(login).signs) => w.SetCookie # Nil /\ RedirectsToRoot(w)

\* The right password was sent but the token could not be created: the
\* browser got the error text and, asking for /, was sent to /login.
C29_Witness ==
  /\ login # Nil
  /\ RightPassword
  /\ ~Deref(login).signs
  /\ Deref(login).w.status = 200
  /\ jar = Nil
  /\ root = "redirected"


\* --------------------------------------------------------------------- C30
\* The handler of c read a message in this step.
ReadsMessage(c) == handler'[c].msgs = handler[c].msgs + 1

\* The handler of c wrote a message in this step.
WritesMessage(c) == handler'[c].written # handler[c].written

Called(fn) == unit # Nil /\ Deref(unit).fn = fn

\* C31: when the executor call for a websocket message returns an error, the
\* handler does not crash; it writes the text "Sorry, I encountered an error."
\* and nothing else for that message, and reads on.
C31_ErrorIsAnswered ==
  (Called("handleConnections") /\ Deref(unit).ret.err # "") =>
    /\ ~Deref(unit).result.panicked
    /\ Deref(unit).result.written = <<<<"Sorry, I encountered an error.">>>>

\* --------------------------------------------------------------------- C32
\* The text of the pattern a message names, or the fallback text.
PatternTextOf(msg) ==
  CASE msg.Pattern = "Plan Day" ->
         <<"Based on the provided notes, create a detailed plan for my day.">>
    [] msg.Pattern = "No pattern" -> << >>
    [] OTHER -> <<"Please act on the following request.">>

\* C32: the input handed to the executor for a websocket message is the text
\* of the selected pattern (the fallback text for an unknown pattern name)
\* combined with the user's message when the message is not empty, and the
\* pattern text alone when it is.
C32_InputIsPatternAndMessage ==
  Called("handleConnections") =>
    LET msg == Deref(unit).msg IN
    /\ msg.Message = << >> => Deref(unit).result.input = PatternTextOf(msg)
    /\ msg.Message # << >> =>
         /\ Len(Deref(unit).result.input) = Len(PatternTextOf(msg)) + 3
         /\ SubSeq(Deref(unit).result.input, 1, Len(PatternTextOf(msg))) = PatternTextOf(msg)
         /\ Deref(unit).result.input[Len(PatternTextOf(msg)) + 2] = msg.Message[1]


\* --------------------------------------------------------------------- C33
\* The errors a tool returns because of its input.
InputErrors ==
  {"provide event details as a JSON object in the tool input",
   "invalid add event payload; expected a JSON object",
   "summary is required to create an event",
   "start_time is required to create an event",
   "provide event details as JSON in the tool input",
   "invalid edit event payload; expected JSON",
   "event_id is required to edit an event",
   "provide at least one field to update",
   "summary cannot be empty when provided",
   "duration_minutes must be greater than 0",
   "provide task details as a JSON object in the tool input",
   "invalid add task payload; expected a JSON object",
   "title is required to create a task",
   "status must be needsAction or completed when provided",
   "invalid start_time", "invalid end_time", "invalid due",
   "start_time and end_time must both be date-only or both include time",
   "end time must be after start time",
   "existing event has no start time; please provide start_time"}

\* The requests of the call made that change what the service holds.
MutatingCalls ==
  {i \in DOMAIN Deref(unit).result.calls :
     Deref(unit).result.calls[i].method \in {"Events.Insert", "Events.Update", "Tasks.Insert"}}

\* C33: when add-event, edit-event or add-task returns an error caused by its
\* input (an empty or non-JSON payload, a missing required field, a time
\* that cannot be read, an end not after the start, an invalid status), it
\* has sent no insert and no update to the external service.
C33_NoMutationOnInputError ==
  ((Called("AddEvent.Call") \/ Called("EditEvent.Call") \/ Called("AddTask.Call"))
     /\ Deref(unit).result.err \in InputErrors)
    => MutatingCalls = {}

\* An edit whose new start is not before the end the event keeps was refused
\* after the event had been fetched, and an add-task with an unreadable due
\* date was refused.
C33_Witness ==
  \/ /\ Called("EditEvent.Call")
     /\ Deref(unit).result.err = "end time must be after start time"
     /\ Len(Deref(unit).result.calls) = 1
  \/ /\ Called("AddTask.Call")
     /\ Deref(unit).result.err = "invalid due"


\* --------------------------------------------------------------------- C34
\* The call made was an add-event or an edit-event that computed the times
\* of the event without error.
TimesComputed ==
  /\ Called("AddEvent.Call") \/ Called("EditEvent.Call")
  /\ Deref(unit).result.times # Nil
  /\ Deref(Deref(unit).result.times).err = ""

\* The text the start of the event was read from.
StartText ==
  LET payload == Deref(unit).input.payload
      existing == Deref(Deref(unit).found).Start
  IN  IF Called("AddEvent.Call") THEN payload.StartTime
      ELSE IF payload.StartTime # Nil THEN TrimSpace(Deref(payload.StartTime))
      ELSE IF Deref(existing).DateTime # << >> THEN Deref(existing).DateTime
      ELSE Deref(existing).Date

\* The end the event already has, for an edit.
ExistingEndText ==
  LET existing == Deref(Deref(unit).found).End
  IN  IF Deref(existing).DateTime # << >> THEN Deref(existing).DateTime
      ELSE Deref(existing).Date

\* Whether the payload gives an end, and a duration.
EndGiven ==
  IF Called("AddEvent.Call") THEN Deref(unit).input.payload.EndTime # << >>
  ELSE Deref(unit).input.payload.EndTime # Nil

DurationGiven ==
  IF Called("AddEvent.Call") THEN Deref(unit).input.payload.DurationMinutes > 0
  ELSE Deref(unit).input.payload.DurationMinutes # Nil

\* What both readings of the claim share: the end is strictly after the
\* start; a date-only start gives an all-day event from midnight to
\* midnight, a timed start a timed event, and an end given in the payload is
\* written the same way as the start; a new event with a timed start and
\* neither an end nor a positive duration ends one hour after it starts.
C34_Common ==
  LET times == Deref(Deref(unit).result.times)
      payload == Deref(unit).input.payload
      endText == IF Called("AddEvent.Call") THEN payload.EndTime
                 ELSE TrimSpace(Deref(payload.EndTime))
  IN  /\ times.end > times.start
      /\ times.allDay <=> ParseLayouts(StartText).layout = "DateOnly"
      /\ times.allDay => times.start % 1440 = 0 /\ times.end % 1440 = 0
      /\ EndGiven => (times.allDay <=> ParseLayouts(endText).layout = "DateOnly")
      /\ (Called("AddEvent.Call") /\ ~times.allDay /\ ~EndGiven /\ ~DurationGiven)
           => times.end = times.start + 60

\* C34 as stated: whenever prepareEventTimes (add) or computeEditedTimes
\* (edit) returns without error, the end is strictly after the start and both
\* are date-only or both timed; a date-only start with no end given yields an
\* end exactly one day later; for add, a timed start with neither end_time
\* nor a positive duration yields an end exactly one hour later.
C34_Original ==
  TimesComputed =>
    LET times == Deref(Deref(unit).result.times) IN
    /\ C34_Common
    /\ (times.allDay /\ ~EndGiven) => times.end = times.start + 1440

\* C34, amended: as stated for add. For edit, a date-only start with no
\* end_time yields an end exactly one day later when duration_minutes is
\* given; with neither of them the event keeps the end it has, which must
\* be date-only and after the start.
C34_Amended ==
  TimesComputed =>
    LET times == Deref(Deref(unit).result.times) IN
    /\ C34_Common
    /\ (times.allDay /\ ~EndGiven /\ (Called("AddEvent.Call") \/ DurationGiven))
         => times.end = times.start + 1440
    /\ (Called("EditEvent.Call") /\ ~EndGiven /\ ~DurationGiven)
         => /\ times.end = ParseLayouts(ExistingEndText).t
            /\ times.allDay <=> ParseLayouts(ExistingEndText).layout = "DateOnly"

\* An edit gave a two-day all-day event a date-only start and no end, and the
\* event kept its end, two days after the start.
C34_Witness ==
  /\ TimesComputed
  /\ Called("EditEvent.Call")
  /\ Deref(unit).input.payload.StartTime # Nil
  /\ ~EndGiven /\ ~DurationGiven
  /\ Deref(Deref(unit).result.times).allDay
  /\ Deref(Deref(unit).result.times).end = Deref(Deref(unit).result.times).start + 2880


\* --------------------------------------------------------------------- C35
\* The call made was an edit-event that sent an update to the service.
UpdateSent ==
  /\ Called("EditEvent.Call")
  /\ Len(Deref(unit).result.calls) = 2
  /\ Deref(unit).result.calls[2].method = "Events.Update"

\* C35: edit-event changes only what its payload names: the summary, the
\* description and the location of the event it sends keep their existing
\* values unless the payload provides them, and its start and end keep their
\* existing values unless the payload provides start_time, end_time,
\* duration_minutes or time_zone; a payload without event_id or without any
\* field to update is rejected and nothing is sent for it.
C35_OnlyNamedFieldsChange ==
  LET payload == Deref(unit).input.payload
      existing == Deref(Deref(unit).found)
      updated == Deref(Deref(unit).result.calls[2].event)
  IN  /\ UpdateSent =>
           /\ payload.Summary = Nil => updated.Summary = existing.Summary
           /\ payload.Description = Nil => updated.Description = existing.Description
           /\ payload.Location = Nil => updated.Location = existing.Location
           /\ (/\ payload.StartTime = Nil /\ payload.EndTime = Nil
               /\ payload.DurationMinutes = Nil /\ payload.TimeZone = Nil)
                => updated.Start = existing.Start /\ updated.End = existing.End
      /\ (/\ Called("EditEvent.Call")
          /\ \/ TrimSpace(payload.EventID) = << >>
             \/ /\ payload.Summary = Nil /\ payload.Description = Nil
                /\ payload.Location = Nil /\ payload.StartTime = Nil
                /\ payload.EndTime = Nil /\ payload.DurationMinutes = Nil
                /\ payload.TimeZone = Nil)
           => Deref(unit).result.err # "" /\ Deref(unit).result.calls = << >>

\* An edit that names the location alone was sent with the new location and
\* the summary, description, start and end the event had.
C35_Witness ==
  /\ UpdateSent
  /\ Deref(unit).result.err = ""
  /\ Deref(unit).input.payload.Location # Nil
  /\ Deref(unit).input.payload.Summary = Nil
  /\ Deref(unit).input.payload.StartTime = Nil
  /\ Deref(unit).input.payload.TimeZone = Nil
  /\ Deref(Deref(unit).result.calls[2].event).Location # Deref(Deref(unit).found).Location
  /\ Deref(Deref(unit).result.calls[2].event).Summary = <<"Trip">>
  /\ Deref(Deref(unit).result.calls[2].event).Start = Deref(Deref(unit).found).Start


\* --------------------------------------------------------------------- C36
\* The date a file name starts with, in days from 2023-12-31, if its first
\* ten characters are a valid date.
LeadingDate(fileName) ==
  CASE fileName[1] = "2024-01-01" -> Ptr(1)
    [] fileName[1] = "2024-01-02" -> Ptr(2)
    [] fileName[1] \in {"2024-01-03", "2024-01-03-trip"} -> Ptr(3)
    [] OTHER -> Nil

\* result holds at most amount notes, in ascending date order, and they are
\* the ones with the latest dates among the files of the directory that
\* DateOf gives a date.
LatestNotes(result, dirEntries, amount, DateOf(_)) ==
  LET dated == {i \in DOMAIN dirEntries : DateOf(dirEntries[i]) # Nil}
      kept == {result[k].FilePath : k \in DOMAIN result}
  IN  /\ Len(result) = IF Cardinality(dated) < amount THEN Cardinality(dated) ELSE amount
      /\ Cardinality(kept) = Len(result)
      /\ \A k \in DOMAIN result :
           /\ \E i \in dated : dirEntries[i] = result[k].FilePath
           /\ DateOf(result[k].FilePath) = Ptr(result[k].Time)
      /\ \A k \in 1..(Len(result) - 1) : result[k].Time <= result[k + 1].Time
      /\ \A i \in dated : dirEntries[i] \notin kept =>
           \A k \in DOMAIN result : Deref(DateOf(dirEntries[i])) <= result[k].Time

\* C36 as stated: for every directory content and every amount >= 1, both
\* GetLastNotes implementations return the same result: at most amount notes,
\* the ones with the latest dates among the files whose names start with a
\* valid YYYY-MM-DD date, in ascending date order.
C36_Original ==
  Called("GetLastNotes") =>
    \A a \in Deref(unit).once, b \in Deref(unit).incremental :
      /\ a = b
      /\ LatestNotes(a, Deref(unit).dirEntries, Deref(unit).amount, LeadingDate)

\* C36, amended: for every directory content and every amount >= 1, both
\* implementations return at most amount notes, the ones with the latest
\* dates among the files whose name up to its first dot is a valid
\* YYYY-MM-DD date, in ascending date order; the dates of the two results
\* are the same, and the results are the same list when no two such files
\* have the same date.
C36_Amended ==
  Called("GetLastNotes") =>
    LET dirEntries == Deref(unit).dirEntries
        dated == {i \in DOMAIN dirEntries : NoteDate(dirEntries[i]) # Nil}
    IN  \A a \in Deref(unit).once, b \in Deref(unit).incremental :
          /\ LatestNotes(a, dirEntries, Deref(unit).amount, NoteDate)
          /\ LatestNotes(b, dirEntries, Deref(unit).amount, NoteDate)
          /\ [k \in DOMAIN a |-> a[k].Time] = [k \in DOMAIN b |-> b[k].Time]
          /\ (\A i, j \in dated :
                NoteDate(dirEntries[i]) = NoteDate(dirEntries[j]) => i = j) => a = b

\* Of three dated notes and one asked for, both implementations returned the
\* newest, and a file with text after its date was passed over.
C36_Witness ==
  /\ Called("GetLastNotes")
  /\ Deref(unit).amount = 1
  /\ Deref(unit).dirEntries =
       <<<<"2024-01-01", "md">>, <<"2024-01-02", "md">>, <<"2024-01-03-trip", "md">>>>
  /\ Deref(unit).once = {<<[FilePath |-> <<"2024-01-02", "md">>, Time |-> 2]>>}
  /\ Deref(unit).incremental = Deref(unit).once


\* --------------------------------------------------------------------- C37
\* The call made was a call of one of the calendar and tasks tools.
ToolCalled == Called("AddEvent.Call") \/ Called("EditEvent.Call") \/ Called("AddTask.Call")

\* The call made got as far as resolving its credential.
ResolutionReached ==
  Deref(unit).result.err \notin InputErrors \cup {"context canceled"}

\* C37: credential resolution for the calendar and tasks tools prefers the
\* context: a token source in the context is used even when a credentials
\* file is configured, the credentials file is used only when the context
\* has none, a context value of the wrong type is an error, and with neither
\* a token source nor a credentials file the tool returns an error without
\* sending anything to the external service.
C37_ContextFirst ==
  ToolCalled =>
    LET ts == Deref(unit).caller.ctx.OauthTokenSource
        credFile == Deref(unit).caller.credFile
        result == Deref(unit).result
    IN  /\ \A i \in DOMAIN result.calls :
             /\ ts # Nil => result.calls[i].opt = [kind |-> "WithTokenSource", with |-> Deref(ts)]
             /\ result.calls[i].opt.kind = "WithCredentialsFile" =>
                  ts = Nil /\ result.calls[i].opt.with = credFile
        /\ (ts # Nil /\ Deref(ts).kind \notin {"config", "static"}) =>
             /\ result.calls = << >>
             /\ result.err # ""
             /\ ResolutionReached => result.err = "context value OauthTokenSource is not valid"
        /\ (ts = Nil /\ credFile = << >>) =>
             /\ result.calls = << >>
             /\ result.err # ""
             /\ ResolutionReached =>
                  result.err \in {"authentication for calendar tool is not configured yet",
                                  "authentication for google tasks tool is not configured yet"}

\* An add-event with a token source in its context and a credentials file
\* configured sent its insert with the token source; or a tool with a value
\* of the wrong type in its context answered that the value is not valid.
C37_Witness ==
  /\ ToolCalled
  /\ Deref(unit).caller.ctx.OauthTokenSource # Nil
  /\ \/ /\ Called("AddEvent.Call")
        /\ Deref(unit).caller.credFile = <<"credentials.json">>
        /\ Deref(unit).result.err = ""
        /\ Deref(unit).result.calls[1].opt.kind = "WithTokenSource"
     \/ Deref(unit).result.err = "context value OauthTokenSource is not valid"

====
